---- MODULE Spec2Model ----
(***************************************************************************)
(* Verification model of the OCCO Infrastructure Processor                 *)
(* (occopus/infra-processor).                                              *)
(*                                                                         *)
(* The module holds several specifications over one set of variables; each *)
(* specification drives one part of the program and leaves the variables   *)
(* of the other parts at their initial values:                             *)
(*                                                                         *)
(*   SpecIP      InfraProcessor.push_instructions / cancel_pending with    *)
(*               the event based SequentialStrategy (infraprocessor.py),   *)
(*               one pushing thread and one cancelling thread              *)
(*   SpecRemote  RemoteInfraProcessor and RemoteInfraProcessorSkeleton     *)
(*               with their two queues (infraprocessor.py)                 *)
(*   SpecSeq     Strategy.perform with SequentialStrategy and the basic    *)
(*               commands (strategy.py, basic_infraprocessor.py)           *)
(*   SpecPar     ParallelProcessesStrategy and its PerformProcess          *)
(*               workers (strategy.py)                                     *)
(*   SpecStrategies  a processor built with either of the two strategies   *)
(*   SpecWait    wait_for_node and sleep (synchronization/__init__.py)     *)
(*   SpecRes     IdentityResolver.resolve_node                             *)
(*               (node_resolution/resolution.py)                           *)
(*   SpecBasic   BasicResolver._resolve_node                               *)
(*               (plugins/infraprocessor/node_resolution/basic.py)         *)
(*   SpecNode    CreateNode.perform and DropNode.perform, one collaborator *)
(*               call at a time (basic_infraprocessor.py)                  *)
(*   SpecSynch   CompositeStatus.get_composite_status over the status      *)
(*               components of BasicNodeSynchStrategy                      *)
(*               (synchronization/primitives.py, __init__.py)              *)
(*   SpecContext RemoteInfraProcessorSkeleton.__enter__ and __exit__       *)
(*               (infraprocessor.py)                                       *)
(***************************************************************************)
EXTENDS Integers, Sequences, FiniteSets, TLC

Range(s) == {s[i] : i \in 1..Len(s)}

\* The sequences of length 0..n over S in which no element occurs twice.
RECURSIVE DistinctSeqs(_, _)
DistinctSeqs(S, n) ==
    IF n = 0 THEN {<<>>}
    ELSE LET shorter == DistinctSeqs(S, n - 1)
         IN  shorter \cup
             UNION {{Append(s, x) : x \in S \ Range(s)} :
                    s \in {t \in shorter : Len(t) = n - 1}}

(***************************************************************************)
(* Part 1.  InfraProcessor with its cancellation watermark                 *)
(*          (src/occo/infraprocessor/infraprocessor.py)                    *)
(***************************************************************************)

\* Largest value of the clock that stamps commands.
MaxTime == 2
\* Number of Command objects constructed in one behaviour.
MaxCmds == 2

VARIABLES
    cmds,              \* cmds[c]: Command.timestamp of the c-th command built
    cancelled_until,   \* InfraProcessor.cancelled_until
    cancel_event,      \* Strategy.cancel_event (threading.Event)
    ip_pc,             \* position of the thread inside push_instructions
    instruction_list,  \* push_instructions: the normalised argument
    filtered_list,     \* push_instructions: the list handed to the strategy
    ip_results,        \* SequentialStrategy.perform: results (command ids)
    cn_pc,             \* position of the thread inside cancel_pending
    ip_overlap,        \* history: cancel_pending ran since this push began
    ip_stale,          \* history: cancel_event was set when this push began
    performedEver      \* history: commands performed by any earlier push

ipVars == <<cmds, cancelled_until, cancel_event, ip_pc, instruction_list,
            filtered_list, ip_results, cn_pc, ip_overlap, ip_stale,
            performedEver>>

VARIABLES
    ip_queue,          \* the work queue: messages pushed by RemotePushStrategy
    control_queue,     \* the control (RPC) queue: management commands
    sk_pc,             \* RemoteInfraProcessorSkeleton.start_consuming position
    sk_event,          \* RemoteInfraProcessorSkeleton.cancel_event
    last_response,     \* status of the last comm.Response of the control queue
    rm_pendingAtSkip,  \* history: commands waiting in the work queue, stamped
                       \* before d, when the last SkipUntil(d) was processed
    rm_late,           \* history: commands of rm_pendingAtSkip performed later
    rm_cycle,          \* history of the current cycle of start_consuming:
                       \*   whether a control message was waiting when the
                       \*   cycle began, and the queues messages were
                       \*   consumed from so far, in order; and the number
                       \*   of cycles the current call of start_consuming
                       \*   has begun (-1: it was never called)
    rm_pushed,         \* history: the commands the stub pushed, in order
    rm_executed        \* history: the commands the skeleton handed to the
                       \*   backend's strategy, in order

rmOrder == <<rm_pushed, rm_executed>>

rmVars == <<ip_queue, control_queue, sk_pc, sk_event, last_response,
            rm_pendingAtSkip, rm_late, rm_cycle, rm_pushed, rm_executed>>

VARIABLES
    environments,      \* DummyInfoBroker.environments: infra id -> node list
    node_lookup,       \* DummyInfoBroker.node_lookup: node id -> node object
    objs               \* the node objects (resolved node definitions) built
                       \* so far; an object is named by its index in objs

colVars == <<environments, node_lookup, objs>>

VARIABLES
    seq_pc,            \* position of the thread inside Strategy.perform
    seq_batch,         \* Strategy.perform: instruction_list
    seq_results,       \* SequentialStrategy._perform: results
    seq_cancelled,     \* SequentialStrategy.cancelled
    seq_done,          \* commands of the batch whose perform was called
    seq_rv,            \* what Strategy.perform yielded to its caller
    seq_error,         \* class of the exception Strategy.perform raised
    seq_createFault,   \* history: node object whose create_node call raised
                       \* after its registration, in this perform call
    seq_redrop,        \* history: the command performed last is a DropNode
    seq_outcome,       \* history: for each command performed in this batch,
                       \*   in the order performed, its position in the
                       \*   batch and the kind of exception it raised
    seq_undo,          \* history: the compensating DropNode of this batch:
                       \*   whether one was performed, for which node, and
                       \*   the kind of exception it raised
    seq_cancelAt,      \* history: how many commands of this batch had been
                       \*   started when cancel_pending() was first called
                       \*   from outside (-1: it was not called)
    seq_lifecycle      \* history: how far the commands performed last follow
                       \*   create infrastructure, create node, drop node,
                       \*   drop infrastructure from an empty state (0..4)
                       \* of a node that had been dropped before

seqVars == <<seq_pc, seq_batch, seq_results, seq_cancelled, seq_done, seq_rv,
             seq_error, seq_createFault, seq_redrop,
             seq_outcome, seq_undo, seq_cancelAt,
             seq_lifecycle>>

VARIABLES
    par_pc,            \* position of the parent inside Strategy.perform
    par_batch,         \* Strategy.perform: instruction_list
    processes,         \* ParallelProcessesStrategy.processes (process ids)
    par_results,       \* ParallelProcessesStrategy.results
    result_queue,      \* ParallelProcessesStrategy.result_queue
    workers,           \* the PerformProcess objects started, by process id
    par_error,         \* class of the exception Strategy.perform raised
    par_rv,            \* what Strategy.perform yielded to its caller
    par_outcome,       \* history: what the parent did with each process's
                       \* message
    par_listedBefore   \* history: the node objects listed when perform began

parVars == <<par_pc, par_batch, processes, par_results, result_queue, workers,
             par_error, par_rv, par_outcome, par_listedBefore>>

VARIABLES
    wt_pc,             \* position inside wait_for_node
    wt_now,            \* the clock, time.time()
    wt_timeout,        \* wait_for_node: timeout (0: None or 0, no timeout)
    wt_poll,           \* wait_for_node: poll_delay
    wt_event,          \* wait_for_node: cancel_event ("none": None)
    wt_start,          \* wait_for_node: start_time
    wt_finish,         \* wait_for_node: finish_time
    wt_status          \* wait_for_node: status

waitVars == <<wt_pc, wt_now, wt_timeout, wt_poll, wt_event, wt_start,
              wt_finish, wt_status>>

VARIABLES
    rs_pc,             \* position around IdentityResolver.resolve_node
    rs_definition,     \* the node_definition dict, updated in place
    rs_description,    \* Resolver.node_description
    rs_node_id,        \* Resolver.node_id
    rs_before          \* history: node_definition as it was handed over

resVars == <<rs_pc, rs_definition, rs_description, rs_node_id, rs_before>>

VARIABLES
    br_pc,             \* position inside BasicResolver._resolve_node
    br_heap,           \* the dicts and lists the call can reach, by identity
    br_attrs,          \* resolve_attributes: the object attrs refers to
    br_before          \* history: br_heap when _resolve_node was called

brVars == <<br_pc, br_heap, br_attrs, br_before>>

VARIABLES
    nd_pc,             \* the call CreateNode.perform or DropNode.perform is
                       \*   about to make, or how perform ended
    nd_cmd,            \* the command performed: its class and its node id
    nd_calls,          \* history: the collaborator calls this perform made,
                       \*   in order
    nd_failedAt,       \* history: the position in nd_calls of the call that
                       \*   raised (0: none did)
    nd_config,         \* node ids registered with the service composer
    nd_cloud,          \* node ids that have an instance at the cloud handler
    nd_store,          \* node ids whose instance data the UDS holds
    nd_issued,         \* number of node ids given out (uuid.uuid4())
    nd_instance_ids,   \* history: node ids for which cloudhandler.create_node
                       \*   returned an instance id
    nd_dropped         \* history: node ids whose DropNode.perform returned

ndVars == <<nd_pc, nd_cmd, nd_calls, nd_failedAt, nd_config, nd_cloud,
            nd_store, nd_issued, nd_instance_ids, nd_dropped>>

VARIABLES
    sy_pc,             \* position inside CompositeStatus.get_composite_status
    sy_lazy,           \* get_composite_status: lazy
    sy_enabled,        \* the status components the health_check parameters
                       \*   and synch_attrs of the node definition switch on
    sy_probe,          \* what the query of each status component meets
    sy_backend,        \* the status of the node at its backend
    sy_results,        \* get_composite_status: the results taken from the
                       \*   generator so far, in order
    sy_status          \* get_composite_status: status

syVars == <<sy_pc, sy_lazy, sy_enabled, sy_probe, sy_backend, sy_results,
            sy_status>>

VARIABLES
    cx_pc,             \* position of the thread around "with skeleton:"
    cx_open,           \* for each consumer, whether its context is open
    cx_enters,         \* history: __enter__ calls made on each consumer
    cx_exits,          \* history: __exit__ calls made on each consumer
    cx_blocks,         \* number of with statements begun
    cx_pending         \* an exception is on its way out of the with statement

cxVars == <<cx_pc, cx_open, cx_enters, cx_exits, cx_blocks, cx_pending>>

vars == <<ipVars, rmVars, colVars, seqVars, parVars, waitVars, resVars,
         brVars,
         ndVars,
         syVars,
         cxVars>>

\* the variables the actions of each part leave alone
notIP == <<rmVars, colVars, seqVars, parVars, waitVars, resVars,
    brVars,
    ndVars,
    syVars,
    cxVars>>
notRemote == <<colVars, seqVars, parVars, waitVars, resVars,
    brVars,
    ndVars,
    syVars,
    cxVars>>
notSeq == <<ipVars, rmVars, parVars, waitVars, resVars,
    brVars,
    ndVars,
    syVars,
    cxVars>>
notPar == <<ipVars, rmVars, seqVars, waitVars, resVars,
    brVars,
    ndVars,
    syVars,
    cxVars>>
notWait == <<ipVars, rmVars, colVars, seqVars, parVars, resVars,
    brVars,
    ndVars,
    syVars,
    cxVars>>
notRes == <<ipVars, rmVars, colVars, seqVars, parVars, waitVars,
    brVars,
    ndVars,
    syVars,
    cxVars>>
notBasic == <<ipVars, rmVars, colVars, seqVars, parVars, waitVars, resVars,
    ndVars,
    syVars,
    cxVars>>
notNode == <<ipVars, rmVars, colVars, seqVars, parVars, waitVars, resVars,
    brVars,
    syVars,
    cxVars>>
notSynch == <<ipVars, rmVars, colVars, seqVars, parVars, waitVars, resVars,
    brVars, ndVars,
    cxVars>>
notContext == <<ipVars, rmVars, colVars, seqVars, parVars, waitVars, resVars,
    brVars, ndVars, syVars>>

\* Node instances created in one behaviour.
MaxNodes == 2
\* Longest batch handed to a strategy.
MaxBatch == 2

InfraIds == {"env-1"}
NodeIds == 1..MaxNodes

\* Each specification starts the parts it does not drive in these states.
IdleIP ==
    /\ cmds = [c \in 1..MaxCmds |-> 1]
    /\ cancelled_until = 0
    /\ cancel_event = FALSE
    /\ ip_pc = "idle"
    /\ instruction_list = <<>>
    /\ filtered_list = <<>>
    /\ ip_results = <<>>
    /\ cn_pc = "idle"
    /\ ip_overlap = FALSE
    /\ ip_stale = FALSE
    /\ performedEver = {}

IdleRemote ==
    /\ ip_queue = <<>>
    /\ control_queue = <<>>
    /\ sk_pc = "stopped"
    /\ sk_event = "none"
    /\ last_response = 0
    /\ rm_pendingAtSkip = {}
    /\ rm_late = {}
    /\ rm_cycle = [control_waiting |-> FALSE, consumed |-> <<>>,
                   cycles |-> -1]
    /\ rm_pushed = <<>>
    /\ rm_executed = <<>>

\* DummyInfoBroker.__init__: no infrastructure, no node
IdleCol ==
    /\ environments = [e \in InfraIds |-> [present |-> FALSE, nodes |-> <<>>]]
    /\ node_lookup = [n \in NodeIds |-> 0]
    /\ objs = <<>>

\* no wait_for_node call has been made
IdleWait ==
    /\ wt_pc = "idle"
    /\ wt_now = 0
    /\ wt_timeout = 0
    /\ wt_poll = 1
    /\ wt_event = "none"
    /\ wt_start = 0
    /\ wt_finish = 0
    /\ wt_status = "pending"

\* a dict is a function from Keys; a key the dict lacks maps to Absent
Keys == {"node_id", "infra_id", "user_id", "name", "backend_id"}
Absent == "absent"

\* no resolver has been built
IdleRes ==
    /\ rs_pc = "idle"
    /\ rs_definition = [k \in Keys |-> Absent]
    /\ rs_description = [k \in Keys |-> Absent]
    /\ rs_node_id = Absent
    /\ rs_before = [k \in Keys |-> Absent]

\* the dicts and lists of part 7, by identity: node_desc['attributes'], a
\* dict or list held as a value in it, the 'attributes' dict of the node
\* definition's 'contextualisation', and the dict made by dict()
Objects == {"desc_attributes", "desc_nested", "def_attributes", "new_dict"}
\* the keys of these dicts (the indices, for a list)
Slots == {"a", "b", "connections"}

\* no BasicResolver has been called
IdleBasic ==
    /\ br_pc = "idle"
    /\ br_heap = [o \in Objects |-> [k \in Slots |-> Absent]]
    /\ br_attrs = "none"
    /\ br_before = [o \in Objects |-> [k \in Slots |-> Absent]]

\* no command of part 8 has been performed
IdleNode ==
    /\ nd_pc = "idle"
    /\ nd_cmd = [op |-> "none", node_id |-> 0]
    /\ nd_calls = <<>>
    /\ nd_failedAt = 0
    /\ nd_config = {}
    /\ nd_cloud = {}
    /\ nd_store = {}
    /\ nd_issued = 0
    /\ nd_instance_ids = {}
    /\ nd_dropped = {}

\* basic_status.items: the status components of BasicNodeSynchStrategy in
\* the order their decorators registered them
basic_status ==
    <<"reachable", "ports_ready", "urls_ready", "attributes_ready",
      "mysqldbs_ready">>

\* get_composite_status has not been called
IdleSynch ==
    /\ sy_pc = "idle"
    /\ sy_lazy = TRUE
    /\ sy_enabled = {}
    /\ sy_probe = [c \in Range(basic_status) |-> "ready"]
    /\ sy_backend = "ready"
    /\ sy_results = <<>>
    /\ sy_status = FALSE

\* the two consumers of RemoteInfraProcessorSkeleton
Consumers == {"ip_consumer", "control_consumer"}

\* RemoteInfraProcessorSkeleton.__init__: no context has been entered
IdleContext ==
    /\ cx_pc = "out"
    /\ cx_open = [c \in Consumers |-> FALSE]
    /\ cx_enters = [c \in Consumers |-> 0]
    /\ cx_exits = [c \in Consumers |-> 0]
    /\ cx_blocks = 0
    /\ cx_pending = FALSE

\* ParallelProcessesStrategy before its first perform
IdlePar ==
    /\ par_pc = "idle"
    /\ par_batch = <<>>
    /\ processes = {}
    /\ par_results = <<>>
    /\ result_queue = <<>>
    /\ workers = <<>>
    /\ par_error = "none"
    /\ par_rv = [yielded |-> FALSE, list |-> <<>>]
    /\ par_outcome = <<>>
    /\ par_listedBefore = {}

\* SequentialStrategy.__init__
IdleSeq ==
    /\ seq_pc = "idle"
    /\ seq_batch = <<>>
    /\ seq_results = <<>>
    /\ seq_cancelled = FALSE
    /\ seq_done = 0
    /\ seq_rv = [yielded |-> FALSE, list |-> <<>>]
    /\ seq_error = "none"
    /\ seq_createFault = 0
    /\ seq_redrop = FALSE
    /\ seq_outcome = <<>>
    /\ seq_undo = [dispatched |-> FALSE, node_id |-> 0, kind |-> "none"]
    /\ seq_cancelAt = -1
    /\ seq_lifecycle = 0

CmdIds == 1..Len(cmds)

timestamp(c) == cmds[c]

\* Strategy.cancelled (property)
cancelled == cancel_event

\* InfraProcessor._not_cancelled, mutated: the comparison admits equality
NotCancelledAtOrAfter(c) == timestamp(c) >= cancelled_until

\* InfraProcessor._not_cancelled
_not_cancelled(c) == timestamp(c) > cancelled_until

\* push_instructions: a single Command is wrapped into a one element tuple
Normalise(instructions) ==
    IF instructions.single THEN <<instructions.cmd>> ELSE instructions.list

\* the arguments a caller may hand to push_instructions
PushArguments ==
    {[single |-> TRUE, cmd |-> c, list |-> <<>>] : c \in CmdIds} \cup
    {[single |-> FALSE, cmd |-> 0, list |-> l] :
        l \in DistinctSeqs(CmdIds, MaxCmds)}

\* list(filter(self._not_cancelled, instruction_list))
Filtered(list) == SelectSeq(list, _not_cancelled)

\* the event after push_instructions line 249, mutated: the event is kept
EventKept(ev) == ev

\* self.strategy.cancel_event.clear()
EventCleared(ev) == FALSE

\* a push has begun (it may have ended since: its lists are still held)
IPBegun == ip_pc # "idle"

\* Command.__init__ stamps each command with the clock (time.time()) at its
\* construction: the commands of a behaviour, in construction order
CommandSets ==
    {s \in [1..MaxCmds -> 1..MaxTime] :
        \A i, j \in 1..MaxCmds : i <= j => s[i] <= s[j]}

InitIP ==
    /\ IdleRemote
    /\ IdleCol
    /\ IdleSeq
    /\ IdlePar
    /\ IdleWait
    /\ IdleRes
    /\ IdleBasic
    /\ IdleNode
    /\ IdleSynch
    /\ IdleContext
    /\ cmds \in CommandSets
    /\ cancelled_until = 0
    /\ cancel_event = FALSE
    /\ ip_pc = "idle"
    /\ instruction_list = <<>>
    /\ filtered_list = <<>>
    /\ ip_results = <<>>
    /\ cn_pc = "idle"
    /\ ip_overlap = FALSE
    /\ ip_stale = FALSE
    /\ performedEver = {}

\* push_instructions, lines 245-247: normalise the argument
PushStart(instructions) ==
    /\ ip_pc \in {"idle", "returned", "raised"}
    /\ instruction_list' = Normalise(instructions)
    /\ ip_pc' = "clear"
    /\ filtered_list' = <<>>
    /\ ip_results' = <<>>
    /\ ip_overlap' = (cn_pc # "idle")
    /\ ip_stale' = cancel_event
    /\ UNCHANGED notIP
    /\ UNCHANGED <<cmds, cancelled_until, cancel_event, cn_pc, performedEver>>

\* push_instructions, line 249
PushClear ==
    /\ ip_pc = "clear"
    /\ cancel_event' = EventCleared(cancel_event)
    /\ ip_pc' = "filter"
    /\ UNCHANGED notIP
    /\ UNCHANGED <<cmds, cancelled_until, instruction_list, filtered_list,
                   ip_results, cn_pc, ip_overlap, ip_stale, performedEver>>

\* push_instructions, lines 251-253: filter, then enter strategy.perform
PushFilter ==
    /\ ip_pc = "filter"
    /\ filtered_list' = Filtered(instruction_list)
    /\ ip_pc' = "check"
    /\ UNCHANGED notIP
    /\ UNCHANGED <<cmds, cancelled_until, cancel_event, instruction_list,
                   ip_results, cn_pc, ip_overlap, ip_stale, performedEver>>

\* SequentialStrategy.perform, lines 84-86 and 89: the loop head
LoopCheck ==
    /\ ip_pc = "check"
    /\ ip_pc' = IF cancelled \/ Len(ip_results) = Len(filtered_list)
                THEN "returned" ELSE "perform"
    /\ UNCHANGED notIP
    /\ UNCHANGED <<cmds, cancelled_until, cancel_event, instruction_list,
                   filtered_list, ip_results, cn_pc, ip_overlap, ip_stale,
                   performedEver>>

\* SequentialStrategy.perform, lines 87-88: the command runs; an exception
\* it raises leaves perform and push_instructions
LoopPerform(ok) ==
    /\ ip_pc = "perform"
    /\ LET c == filtered_list[Len(ip_results) + 1]
       IN  /\ performedEver' = performedEver \cup {c}
           /\ IF ok
              THEN /\ ip_results' = Append(ip_results, c)
                   /\ ip_pc' = "check"
              ELSE /\ ip_results' = ip_results
                   /\ ip_pc' = "raised"
    /\ UNCHANGED notIP
    /\ UNCHANGED <<cmds, cancelled_until, cancel_event, instruction_list,
                   filtered_list, cn_pc, ip_overlap, ip_stale>>

\* InfraProcessor.cancel_pending, line 277
CancelSetWatermark(deadline) ==
    /\ cn_pc = "idle"
    /\ cancelled_until' = deadline
    /\ cn_pc' = "event"
    /\ ip_overlap' = (ip_overlap \/ IPBegun)
    /\ UNCHANGED notIP
    /\ UNCHANGED <<cmds, cancel_event, ip_pc, instruction_list, filtered_list,
                   ip_results, ip_stale, performedEver>>

\* InfraProcessor.cancel_pending, line 278: Strategy.cancel_pending
CancelSetEvent ==
    /\ cn_pc = "event"
    /\ cancel_event' = TRUE
    /\ cn_pc' = "idle"
    /\ ip_overlap' = (ip_overlap \/ IPBegun)
    /\ UNCHANGED notIP
    /\ UNCHANGED <<cmds, cancelled_until, ip_pc, instruction_list,
                   filtered_list, ip_results, ip_stale, performedEver>>

NextIP ==
    \/ \E a \in PushArguments : PushStart(a)
    \/ PushClear
    \/ PushFilter
    \/ LoopCheck
    \/ \E ok \in BOOLEAN : LoopPerform(ok)
    \/ \E d \in 0..(MaxTime + 1) : CancelSetWatermark(d)
    \/ CancelSetEvent

SpecIP == InitIP /\ [][NextIP]_vars

\* C1: after any sequence of cancel_pending and push_instructions calls, a
\* push that no cancel_pending call overlaps hands no command whose timestamp
\* is at or before cancelled_until to the strategy and performs none, also
\* when the command was performed by an earlier push and is submitted again.
C1_CancelledNeverHandedNorPerformed ==
    (ip_pc \in {"check", "perform", "returned", "raised"} /\ ~ip_overlap) =>
        /\ \A c \in Range(filtered_list) : timestamp(c) > cancelled_until
        /\ \A c \in Range(ip_results) : timestamp(c) > cancelled_until
        /\ ip_pc = "perform" =>
              timestamp(filtered_list[Len(ip_results) + 1]) > cancelled_until

\* C1 witness: a command performed by an earlier push is submitted again
\* after cancel_pending moved the watermark to exactly its timestamp; the
\* push drops it and performs the other command of the batch.
C1_Witness ==
    /\ ip_pc = "returned"
    /\ ~ip_overlap
    /\ \E c \in Range(instruction_list) :
          /\ c \in performedEver
          /\ timestamp(c) = cancelled_until
          /\ c \notin Range(filtered_list)
    /\ ip_results # <<>>

\* C2: a push that returns normally and that no cancel_pending call
\* overlapped has performed every submitted command whose timestamp is after
\* cancelled_until, also when a cancel_pending before the push had left the
\* strategy's cancel event set.
C2_LaterCommandsPerformed ==
    (ip_pc = "returned" /\ ~ip_overlap) =>
        \A c \in Range(instruction_list) :
            timestamp(c) > cancelled_until => c \in Range(ip_results)

\* C2 witness: the cancel event was still set when the push began, and the
\* push returned having performed a command.
C2_Witness ==
    /\ ip_pc = "returned"
    /\ ~ip_overlap
    /\ ip_stale
    /\ cancelled_until > 0
    /\ ip_results # <<>>

\* C36: the watermark only advances: no step of the processor lowers
\* cancelled_until, whatever deadlines cancel_pending is called with, so a
\* command cancelled by one call stays cancelled after a later call.
C36_WatermarkOnlyAdvances ==
    [][cancelled_until' >= cancelled_until]_vars

\* the command SequentialStrategy.perform is about to perform (line 87)
NextCommand == filtered_list[Len(ip_results) + 1]

\* C40: with one thread in push_instructions and another in
\* cancel_pending(d), no command with timestamp <= d starts executing after
\* cancel_pending(d) has returned: no step that performs a command is taken
\* when no cancel_pending call is under way and the command's timestamp is
\* at or before the watermark the last call left.
C40_NothingStartsAfterCancelReturned ==
    [][(ip_pc = "perform" /\ ip_pc' # "perform") =>
          ~(cn_pc = "idle" /\ timestamp(NextCommand) <= cancelled_until)]_vars

(***************************************************************************)
(* Part 2.  Remote interface: RemoteInfraProcessor (the stub),             *)
(*          RemotePushStrategy, Mgmt_SkipUntil and                         *)
(*          RemoteInfraProcessorSkeleton in front of a backend processor   *)
(*          (src/occo/infraprocessor/infraprocessor.py)                    *)
(*                                                                         *)
(* The backend processor is the one of part 1 (cmds, cancelled_until,      *)
(* cancel_event, performedEver); the skeleton drives it from one thread.   *)
(***************************************************************************)

\* Longest work queue and longest control queue.
MaxQueue == 2
\* Number of commands the stub pushes in one behaviour.
MaxPushed == 3
\* The cycles of one start_consuming call are counted up to this number.
MaxCycles == 2

\* the methods class InfraProcessor and BasicInfraProcessor define
InfraProcessorMethods ==
    {"__init__", "__enter__", "__exit__", "_not_cancelled",
     "push_instructions", "cri_create_env", "cri_create_node",
     "cri_drop_node", "cri_drop_environment", "cancel_pending"}

\* the method Mgmt_SkipUntil.perform calls on the processor (line 496)
SkipUntilCallee == "cancel_upcoming"

\* RemoteInfraProcessorSkeleton.cancelled
SkCancelled == sk_event = "none" \/ sk_event = "set"

Deadlines == 0..(MaxTime + 1)

InitRemote ==
    /\ IdleCol
    /\ IdleSeq
    /\ IdlePar
    /\ IdleWait
    /\ IdleRes
    /\ IdleBasic
    /\ IdleNode
    /\ IdleSynch
    /\ IdleContext
    /\ cmds \in CommandSets
    /\ cancelled_until = 0
    /\ cancel_event = FALSE
    /\ ip_pc = "idle"
    /\ instruction_list = <<>>
    /\ filtered_list = <<>>
    /\ ip_results = <<>>
    /\ cn_pc = "idle"
    /\ ip_overlap = FALSE
    /\ ip_stale = FALSE
    /\ performedEver = {}
    /\ ip_queue = <<>>
    /\ control_queue = <<>>
    /\ sk_pc = "stopped"
    /\ sk_event \in {"none", "clear"}
    /\ last_response = 0
    /\ rm_pendingAtSkip = {}
    /\ rm_late = {}
    /\ rm_cycle = [control_waiting |-> FALSE, consumed |-> <<>>,
                   cycles |-> -1]
    /\ rm_pushed = <<>>
    /\ rm_executed = <<>>

\* Mgmt_SkipUntil messages waiting in the work queue at one time.
MaxMgmt == 1

\* class Mgmt_SkipUntil, lines 492-494: the command with its deadline. As a
\* message of a queue it is written as a negative number, the regular
\* commands being the numbers 1..Len(cmds)
Mgmt_SkipUntil(deadline) == -(deadline + 1)

IsMgmt(message) == message < 0

IsRegular(message) == ~IsMgmt(message)

\* the regular commands among the messages of a queue, in order
Regular(queue) == SelectSeq(queue, IsRegular)

\* the deadlines the stub's cancel_pending is called with
StubDeadlines == {MaxTime}

\* the thread variables of part 1, which the skeleton's thread does not use
ipThread == <<ip_pc, instruction_list, filtered_list, ip_results, cn_pc,
              ip_overlap, ip_stale>>

\* RemotePushStrategy.perform, mutated: a message is put in front of the
\* messages already waiting
RemotePushedInFront(queue, list) == list \o queue

\* RemotePushStrategy.perform, lines 153-158: queue.push_message(i) for each
\* instruction of the list in turn; the queue delivers in the order pushed
RemotePushed(queue, list) == queue \o list

\* RemoteInfraProcessor.push_instructions: the stub's watermark stays 0 (its
\* cancel_pending is overridden), so every command passes its filter;
\* RemotePushStrategy.perform pushes the instructions one message each
StubPush(instructions) ==
    /\ Len(ip_queue) + Len(Normalise(instructions)) <= MaxQueue
    /\ Len(rm_pushed) + Len(Normalise(instructions)) <= MaxPushed
    /\ ip_queue' = RemotePushed(ip_queue, Normalise(instructions))
    /\ rm_pushed' = rm_pushed \o Normalise(instructions)
    /\ UNCHANGED rm_executed
    /\ UNCHANGED <<cmds, cancelled_until, cancel_event, performedEver>>
    /\ UNCHANGED ipThread
    /\ UNCHANGED notRemote
    /\ UNCHANGED <<control_queue, sk_pc, sk_event, last_response,
                   rm_pendingAtSkip, rm_late, rm_cycle>>

\* RemoteInfraProcessor.cancel_pending(deadline), line 538:
\* self.push_instructions([Mgmt_SkipUntil(deadline)]): the command passes the
\* stub's filter (its timestamp is the current time, the stub's watermark is
\* 0) and RemotePushStrategy.perform pushes it on its queue, the work queue
StubCancelPending(deadline) ==
    /\ Len(ip_queue) < MaxQueue
    /\ Len(SelectSeq(ip_queue, IsMgmt)) < MaxMgmt
    /\ ip_queue' = RemotePushed(ip_queue, <<Mgmt_SkipUntil(deadline)>>)
    /\ UNCHANGED <<cmds, cancelled_until, cancel_event, performedEver>>
    /\ UNCHANGED ipThread
    /\ UNCHANGED notRemote
    /\ UNCHANGED <<control_queue, sk_pc, sk_event, last_response,
                   rm_pendingAtSkip, rm_late, rm_cycle>>
    /\ UNCHANGED rmOrder

\* a client delivers Mgmt_SkipUntil(deadline) on the control queue
ControlSend(deadline) ==
    /\ Len(control_queue) < MaxQueue
    /\ control_queue' = Append(control_queue, deadline)
    /\ UNCHANGED <<cmds, cancelled_until, cancel_event, performedEver>>
    /\ UNCHANGED ipThread
    /\ UNCHANGED notRemote
    /\ UNCHANGED <<ip_queue, sk_pc, sk_event, last_response,
                   rm_pendingAtSkip, rm_late, rm_cycle>>
    /\ UNCHANGED rmOrder

\* process_control_msg, mutated: the exception of the command is not caught
\* and nothing is answered
ControlResponseEscapes(callee) ==
    IF callee \in InfraProcessorMethods THEN 200 ELSE 0

\* process_control_msg, lines 641-645: Response(200, retval) when
\* instruction.perform returns, ExceptionResponse(500, ex) when it raises
ControlResponse(callee) ==
    IF callee \in InfraProcessorMethods THEN 200 ELSE 500

\* start_consuming, mutated: the work queue is polled before the control
\* queue
PollAfterWorkFirst(pc) ==
    CASE pc = "head" -> "work"
      [] pc = "work" -> "control"
      [] pc = "control" -> "head"

\* start_consuming, lines 622-627: the loop polls the control consumer, then
\* the work consumer, then tests self.cancelled again
PollAfter(pc) ==
    CASE pc = "head" -> "control"
      [] pc = "control" -> "work"
      [] pc = "work" -> "head"

\* a call of start_consuming
SkStart ==
    /\ sk_pc = "stopped"
    /\ sk_pc' = "head"
    /\ rm_cycle' = [rm_cycle EXCEPT !.cycles = 0]
    /\ UNCHANGED <<cmds, cancelled_until, cancel_event, performedEver>>
    /\ UNCHANGED ipThread
    /\ UNCHANGED notRemote
    /\ UNCHANGED <<ip_queue, control_queue, sk_event, last_response,
                   rm_pendingAtSkip, rm_late>>
    /\ UNCHANGED rmOrder

\* start_consuming, line 622: while not self.cancelled
SkLoopHead ==
    /\ sk_pc = "head"
    /\ sk_pc' = IF SkCancelled THEN "stopped" ELSE PollAfter("head")
    /\ rm_cycle' = [control_waiting |-> control_queue # <<>>,
                    consumed |-> <<>>,
                    cycles |-> IF SkCancelled \/ rm_cycle.cycles = MaxCycles
                               THEN rm_cycle.cycles
                               ELSE rm_cycle.cycles + 1]
    /\ UNCHANGED <<cmds, cancelled_until, cancel_event, performedEver>>
    /\ UNCHANGED ipThread
    /\ UNCHANGED notRemote
    /\ UNCHANGED <<ip_queue, control_queue, sk_event, last_response,
                   rm_pendingAtSkip, rm_late>>
    /\ UNCHANGED rmOrder

\* start_consuming, line 624, and process_control_msg: the control consumer
\* is polled once; the command is performed at once, whatever its timestamp.
\* Mgmt_SkipUntil.perform calls SkipUntilCallee on the backend processor: a
\* method the processor lacks raises AttributeError, which process_control_msg
\* answers with ExceptionResponse(500)
SkPollControl ==
    /\ sk_pc = "control"
    /\ sk_pc' = PollAfter("control")
    /\ IF control_queue = <<>>
       THEN UNCHANGED <<control_queue, cancelled_until, cancel_event,
                        last_response, rm_pendingAtSkip, rm_cycle>>
       ELSE LET deadline == Head(control_queue)
            IN  /\ control_queue' = Tail(control_queue)
                /\ rm_cycle' = [rm_cycle EXCEPT
                                   !.consumed = Append(@, "control")]
                /\ rm_pendingAtSkip' =
                      {c \in Range(Regular(ip_queue)) : timestamp(c) < deadline}
                /\ last_response' = ControlResponse(SkipUntilCallee)
                /\ IF SkipUntilCallee \in InfraProcessorMethods
                   THEN /\ cancelled_until' = deadline
                        /\ cancel_event' = TRUE
                   ELSE UNCHANGED <<cancelled_until, cancel_event>>
    /\ UNCHANGED <<cmds, performedEver>>
    /\ UNCHANGED ipThread
    /\ UNCHANGED notRemote
    /\ UNCHANGED <<ip_queue, sk_event, rm_late>>
    /\ UNCHANGED rmOrder

\* start_consuming, lines 626-627, and process_ip_msg: the work consumer is
\* polled once; the message goes through the backend's push_instructions
\* (clear the event, filter, perform sequentially) on the skeleton's thread.
\* A Mgmt_SkipUntil message passes the filter (the backend's watermark is 0)
\* and its perform raises AttributeError (line 496), which nothing between
\* SequentialStrategy.perform and process_ip_msg catches: the exception
\* leaves the callback, and the consumer either drops it or lets it end
\* start_consuming
SkPollWork ==
    /\ sk_pc = "work"
    /\ IF ip_queue # <<>> /\ IsMgmt(Head(ip_queue))
       THEN sk_pc' \in {PollAfter("work"), "stopped"}
       ELSE sk_pc' = PollAfter("work")
    /\ IF ip_queue = <<>>
       THEN UNCHANGED <<ip_queue, cancel_event, performedEver, rm_late,
                        rm_cycle, rm_executed>>
       ELSE IF IsMgmt(Head(ip_queue))
       THEN /\ ip_queue' = Tail(ip_queue)
            /\ rm_cycle' = [rm_cycle EXCEPT
                               !.consumed = Append(@, "work")]
            /\ cancel_event' = EventCleared(cancel_event)
            /\ UNCHANGED <<performedEver, rm_late, rm_executed>>
       ELSE LET performed == Range(Filtered(<<Head(ip_queue)>>))
            IN  /\ ip_queue' = Tail(ip_queue)
                /\ rm_executed' = rm_executed \o Filtered(<<Head(ip_queue)>>)
                /\ rm_cycle' = [rm_cycle EXCEPT
                                   !.consumed = Append(@, "work")]
                /\ cancel_event' = EventCleared(cancel_event)
                /\ performedEver' = performedEver \cup performed
                /\ rm_late' = rm_late \cup (performed \cap rm_pendingAtSkip)
    /\ UNCHANGED <<cmds, cancelled_until>>
    /\ UNCHANGED ipThread
    /\ UNCHANGED notRemote
    /\ UNCHANGED <<control_queue, sk_event, last_response, rm_pendingAtSkip,
                   rm_pushed>>

\* the owner of the skeleton sets its cancel event
SkSetEvent ==
    /\ sk_event = "clear"
    /\ sk_event' = "set"
    /\ UNCHANGED <<cmds, cancelled_until, cancel_event, performedEver>>
    /\ UNCHANGED ipThread
    /\ UNCHANGED notRemote
    /\ UNCHANGED <<ip_queue, control_queue, sk_pc, last_response,
                   rm_pendingAtSkip, rm_late, rm_cycle>>
    /\ UNCHANGED rmOrder

NextRemote ==
    \/ \E a \in PushArguments : StubPush(a)
    \/ \E d \in StubDeadlines : StubCancelPending(d)
    \/ \E d \in Deadlines : ControlSend(d)
    \/ SkStart
    \/ SkLoopHead
    \/ SkPollControl
    \/ SkPollWork
    \/ SkSetEvent

SpecRemote == InitRemote /\ [][NextRemote]_vars

\* C6: a command that waited in the work queue, stamped before d, when
\* the skeleton processed SkipUntil(d) from the control queue is not performed
\* on the backend processor when the skeleton consumes the work queue (as
\* long as no further SkipUntil is processed).
C6_SkipUntilFlushesBacklog == rm_late = {}

\* C19: in every cycle of start_consuming the control queue is polled
\* before the work queue: a message is consumed from the work queue only
\* after the poll of the control queue of the same cycle, and if a control
\* message was waiting when the cycle began, it was consumed and performed
\* before the work message of that cycle.
C19_ControlPolledBeforeWork ==
    /\ rm_cycle.consumed \in
          {<<>>, <<"control">>, <<"work">>, <<"control", "work">>}
    /\ rm_cycle.consumed = <<"work">> => ~rm_cycle.control_waiting
    /\ (sk_pc = "work" /\ rm_cycle.control_waiting) =>
          rm_cycle.consumed = <<"control">>

\* C19 witness: a cycle that began with messages waiting in both queues has
\* consumed the control message and then the work message.
C19_Witness ==
    /\ rm_cycle.control_waiting
    /\ rm_cycle.consumed = <<"control", "work">>
    /\ sk_pc = "head"

DirectlyPerformed(list) == Filtered(list)

C31_NoEventPollsOnceThenYields ==
    (sk_pc = "stopped" /\ rm_cycle.cycles >= 0) =>
        /\ sk_event = "none" => rm_cycle.cycles = 1
        /\ sk_event # "none" => sk_event = "set"

\* C33: Mgmt_SkipUntil is a management-only command: no message of the work
\* queue is a Mgmt_SkipUntil; the cancel_pending(deadline) of the stub
\* delivers it through the control queue.
C33_SkipUntilNeverOnWorkQueue ==
    \A i \in 1..Len(ip_queue) : ~IsMgmt(ip_queue[i])

\* C34: a batch pushed through the stub is kept together: one call of
\* push_instructions puts one message on the work queue, whatever the number
\* of commands of the batch is.
C34_BatchIsOneMessage ==
    [][rm_pushed' # rm_pushed => Len(ip_queue') = Len(ip_queue) + 1]_vars

(***************************************************************************)
(* Part 3.  The commands of BasicInfraProcessor                            *)
(*          (src/occo/infraprocessor/basic_infraprocessor.py) performed on *)
(*          the in-memory collaborators (src/occo_test/common.py) by the   *)
(*          SequentialStrategy (src/occo/infraprocessor/strategy.py)       *)
(*                                                                         *)
(* An exception is a record [kind, node_id, has_instance]: its class       *)
(* ("Minor": MinorInfraProcessorError, "NodeCreation": NodeCreationError,  *)
(* "Critical": another CriticalInfraProcessorError, "Other": any other     *)
(* Exception, such as KeyError) and, for a NodeCreationError, the node id  *)
(* of its instance_data and whether that holds an instance_id.             *)
(* None is written 0.                                                      *)
(***************************************************************************)

ColState ==
    [environments |-> environments, node_lookup |-> node_lookup,
     objs |-> objs]

NoException == [kind |-> "none", node_id |-> 0, has_instance |-> FALSE]

Exception(kind) == [kind |-> kind, node_id |-> 0, has_instance |-> FALSE]

\* NodeCreationError(instance_data, ...)
NodeCreationError(node_id, has_instance) ==
    [kind |-> "NodeCreation", node_id |-> node_id,
     has_instance |-> has_instance]

\* a call returns res and leaves the collaborators in st
Done(st, res) == [st |-> st, exc |-> NoException, res |-> res]

\* a call raises exc and leaves the collaborators in st
Raised(st, exc) == [st |-> st, exc |-> exc, res |-> 0]

\* the node ids given out so far
IssuedIds(st) == {st.objs[o].node_id : o \in 1..Len(st.objs)}

\* the node with this id was registered and DummyConfigManager.drop_node has
\* deleted it from node_lookup since
Dropped(st, node_id) ==
    node_id \in IssuedIds(st) /\ st.node_lookup[node_id] = 0

\* the node objects listed under infra e
Listing(st, e) == Range(st.environments[e].nodes)

\* the node id of CreateNode.perform, mutated: every node gets the same id
NodeIdReused(st) == 1

\* CreateNode.perform, line 87: str(uuid.uuid4()), an id never given before
NewNodeId(st) ==
    CHOOSE id \in NodeIds \ IssuedIds(st) :
        \A other \in NodeIds \ IssuedIds(st) : id <= other

\* what the resource handler and the synchronization do to one CreateNode:
\* nothing, or cloudhandler.create_node raises, or wait_for_node raises
Faults ==
    {[at |-> "none", kind |-> "none"]} \cup
    {[at |-> "create", kind |-> k] :
        k \in {"Minor", "NodeCreation", "Critical", "Other"}} \cup
    {[at |-> "wait", kind |-> k] : k \in {"NodeCreation", "Other"}}

\* the exception a fault raises for the node with this id: create_node has
\* no instance_id to report, wait_for_node raises with the instance_data
FaultException(fault, node_id) ==
    IF fault.kind = "NodeCreation"
    THEN NodeCreationError(node_id, fault.at = "wait")
    ELSE Exception(fault.kind)

\* DummyConfigManager.create_infrastructure: environments.setdefault
create_infrastructure(st, infra_id) ==
    IF st.environments[infra_id].present
    THEN Done(st, 0)
    ELSE Done([st EXCEPT !.environments[infra_id] =
                            [present |-> TRUE, nodes |-> <<>>]], 0)

\* DummyConfigManager.drop_infrastructure: del environments[infra_id]
drop_infrastructure(st, infra_id) ==
    IF st.environments[infra_id].present
    THEN Done([st EXCEPT !.environments[infra_id] =
                            [present |-> FALSE, nodes |-> <<>>]], 0)
    ELSE Raised(st, Exception("Other"))

\* DummyConfigManager.register_node: the object is built by the caller
register_node(st, node_id, infra_id) ==
    IF st.environments[infra_id].present
    THEN LET o == Len(st.objs) + 1
         IN  Done([environments |->
                      [st.environments EXCEPT ![infra_id].nodes =
                                                  Append(@, o)],
                   node_lookup |-> [st.node_lookup EXCEPT ![node_id] = o],
                   objs |-> Append(st.objs, [node_id |-> node_id,
                                             infra_id |-> infra_id,
                                             started |-> FALSE])], o)
    ELSE Raised(st, Exception("Other"))

\* DummyCloudHandler.create_node
ch_create_node(st, o) == Done([st EXCEPT !.objs[o].started = TRUE], 0)

\* DummyCloudHandler.drop_node
ch_drop_node(st, node_id) ==
    IF st.node_lookup[node_id] = 0
    THEN Raised(st, Exception("Other"))
    ELSE Done([st EXCEPT !.objs[st.node_lookup[node_id]].started = FALSE], 0)

\* DummyConfigManager.drop_node, mutated: the node stays registered
sc_drop_node_kept(st, node_id) ==
    IF st.node_lookup[node_id] = 0
    THEN Raised(st, Exception("Other"))
    ELSE Done(st, 0)

\* DummyConfigManager.drop_node
sc_drop_node(st, node_id) ==
    IF st.node_lookup[node_id] = 0
    THEN Raised(st, Exception("Other"))
    ELSE LET infra_id == st.objs[st.node_lookup[node_id]].infra_id
             kept(o) == st.objs[o].node_id # node_id
         IN  IF st.environments[infra_id].present
             THEN Done([st EXCEPT
                          !.environments[infra_id].nodes =
                               SelectSeq(@, kept),
                          !.node_lookup[node_id] = 0], 0)
             ELSE Raised(st, Exception("Other"))

\* CreateNode.perform: register, create, wait; nothing is caught
CreateNodePerform(st, infra_id, fault) ==
    LET node_id == NewNodeId(st)
        reg == register_node(st, node_id, infra_id)
    IN  IF reg.exc.kind # "none" THEN reg
        ELSE IF fault.at = "create"
        THEN Raised(reg.st, FaultException(fault, node_id))
        ELSE LET created == ch_create_node(reg.st, reg.res)
             IN  IF fault.at = "wait"
                 THEN Raised(created.st, FaultException(fault, node_id))
                 ELSE Done(created.st, node_id)

\* DropNode.perform: cloudhandler.drop_node, then servicecomposer.drop_node
DropNodePerform(st, node_id) ==
    LET ch == ch_drop_node(st, node_id)
    IN  IF ch.exc.kind # "none" THEN ch ELSE sc_drop_node(ch.st, node_id)

\* Command.perform of the four commands
Perform(st, cmd, fault) ==
    CASE cmd.op = "CreateInfrastructure" ->
             create_infrastructure(st, cmd.infra_id)
      [] cmd.op = "CreateNode" -> CreateNodePerform(st, cmd.infra_id, fault)
      [] cmd.op = "DropNode" -> DropNodePerform(st, cmd.node_id)
      [] cmd.op = "DropInfrastructure" ->
             drop_infrastructure(st, cmd.infra_id)

\* the commands a caller can build (cri_*); the instance data of a DropNode
\* is what an earlier CreateNode returned
Commands ==
    {[op |-> "CreateInfrastructure", infra_id |-> e, node_id |-> 0] :
        e \in InfraIds} \cup
    {[op |-> "CreateNode", infra_id |-> e, node_id |-> 0] : e \in InfraIds}
    \cup
    {[op |-> "DropNode", infra_id |-> "", node_id |-> n] :
        n \in IssuedIds(ColState)} \cup
    {[op |-> "DropInfrastructure", infra_id |-> e, node_id |-> 0] :
        e \in InfraIds}

Batches == UNION {[1..n -> Commands] : n \in 1..MaxBatch}

CreateCount(batch) ==
    Cardinality({i \in DOMAIN batch : batch[i].op = "CreateNode"})

\* SequentialStrategy._perform, line 150, mutated: a Minor error adds no entry
MinorSkipped(results) == results

\* SequentialStrategy._perform, line 150: results.append(None)
MinorAppended(results) == Append(results, 0)

\* SequentialStrategy._perform, line 142, mutated: the list is walked from
\* its end
NextIndexReversed(batch, done) == Len(batch) - done

\* SequentialStrategy._perform, line 142: for i in instruction_list
NextIndex(batch, done) == done + 1

\* what the resource handler does to the compensating DropNode: nothing, or
\* cloudhandler.drop_node raises (a critical error, which stands for every
\* class of exception: both cancel_pending methods catch Exception)
DropFaults == {"none", "Critical"}

NoUndo == [dispatched |-> FALSE, node_id |-> 0, kind |-> "none"]

\* SequentialStrategy.cancel_pending(reason): the partially created node of
\* a NodeCreationError is dropped, whatever the DropNode raises is ignored
Compensated(st, exc, drop_fault) ==
    CASE exc.kind # "NodeCreation" -> Done(st, 0)
      [] exc.kind = "NodeCreation" /\ drop_fault # "none" ->
             Raised(st, Exception(drop_fault))
      [] OTHER -> DropNodePerform(st, exc.node_id)

\* Strategy.perform, lines 77-86, mutated: the exception of the compensating
\* DropNode replaces the one that is raised again
PropagatedLast(exc, undo_exc) ==
    IF undo_exc.kind # "none" THEN undo_exc.kind ELSE exc.kind

\* Strategy.perform, lines 77-86: after cancel_pending(ex) the bare raise
\* raises ex again
Propagated(exc, undo_exc) == exc.kind

\* DummyInfoBroker holds no infrastructure and no node (its repr is '')
Empty(st) ==
    /\ \A e \in InfraIds : ~st.environments[e].present
    /\ \A n \in NodeIds : st.node_lookup[n] = 0

\* the node CreateNode.perform created last
LastCreated(st) == st.objs[Len(st.objs)].node_id

\* the stage of the lifecycle test_drop_infrastructure walks through, after
\* cmd was performed in st with outcome r: 1 after CreateEnvironment in an
\* empty broker, 2 after the CreateNode that follows it, 3 after the DropNode
\* of that node's instance data, 4 after the DropEnvironment; 0 otherwise
LifecycleStep(stage, st, cmd, r) ==
    CASE r.exc.kind # "none" -> 0
      [] cmd.op = "CreateInfrastructure" /\ Empty(st) -> 1
      [] cmd.op = "CreateNode" /\ stage = 1 -> 2
      [] /\ cmd.op = "DropNode"
         /\ stage = 2
         /\ cmd.node_id = LastCreated(st) -> 3
      [] cmd.op = "DropInfrastructure" /\ stage = 3 -> 4
      [] OTHER -> 0

InitSeq ==
    /\ IdleIP
    /\ IdleRemote
    /\ IdleCol
    /\ IdleSeq
    /\ IdlePar
    /\ IdleWait
    /\ IdleRes
    /\ IdleBasic
    /\ IdleNode
    /\ IdleSynch
    /\ IdleContext

\* Strategy.perform enters SequentialStrategy._perform, lines 136-141
SeqBegin(batch) ==
    /\ seq_pc \in {"idle", "ready"}
    /\ Len(objs) + CreateCount(batch) <= MaxNodes
    /\ seq_pc' = "loop"
    /\ seq_batch' = batch
    /\ seq_results' = <<>>
    /\ seq_cancelled' = FALSE
    /\ seq_done' = 0
    /\ seq_rv' = [yielded |-> FALSE, list |-> <<>>]
    /\ seq_error' = "none"
    /\ seq_createFault' = 0
    /\ seq_redrop' = FALSE
    /\ seq_outcome' = <<>>
    /\ seq_undo' = NoUndo
    /\ seq_cancelAt' = -1
    /\ UNCHANGED <<seq_lifecycle, colVars>>
    /\ UNCHANGED notSeq

\* SequentialStrategy._perform, lines 142-144 and 153: the loop head
SeqLoop ==
    /\ seq_pc = "loop"
    /\ IF seq_done = Len(seq_batch) \/ seq_cancelled
       THEN /\ seq_pc' = "returned"
            /\ seq_rv' = [yielded |-> TRUE, list |-> seq_results]
       ELSE /\ seq_pc' = "perform"
            /\ seq_rv' = seq_rv
    /\ UNCHANGED <<seq_batch, seq_results, seq_cancelled, seq_done, seq_error,
                   seq_createFault, seq_redrop, seq_outcome, seq_undo,
                   seq_cancelAt, seq_lifecycle, colVars>>
    /\ UNCHANGED notSeq

\* SequentialStrategy._perform, lines 146-152: one command is performed; a
\* Minor error leaves a None entry.  Any other exception leaves _perform:
\* Strategy.perform, lines 77-86, calls cancel_pending(ex) for a
\* NodeCreationError or another critical error and raises it again; an
\* exception of another class passes through Strategy.perform untouched
SeqPerform(fault, drop_fault) ==
    /\ seq_pc = "perform"
    /\ LET cmd == seq_batch[NextIndex(seq_batch, seq_done)]
           r == Perform(ColState, cmd, fault)
           undo == Compensated(r.st, r.exc, drop_fault)
           critical == r.exc.kind \in {"NodeCreation", "Critical"}
           final == IF critical THEN undo.st ELSE r.st
       IN  /\ cmd.op # "CreateNode" => fault.at = "none"
           /\ r.exc.kind # "NodeCreation" => drop_fault = "none"
           /\ seq_undo' =
                 IF r.exc.kind = "NodeCreation"
                 THEN [dispatched |-> TRUE, node_id |-> r.exc.node_id,
                       kind |-> undo.exc.kind]
                 ELSE seq_undo
           /\ seq_done' = seq_done + 1
           /\ environments' = final.environments
           /\ node_lookup' = final.node_lookup
           /\ objs' = final.objs
           /\ seq_results' =
                 CASE r.exc.kind = "none" -> Append(seq_results, r.res)
                   [] r.exc.kind = "Minor" -> MinorAppended(seq_results)
                   [] OTHER -> seq_results
           /\ seq_pc' = IF r.exc.kind \in {"none", "Minor"}
                        THEN "loop" ELSE "raised"
           /\ seq_error' = IF r.exc.kind \in {"none", "Minor"}
                           THEN seq_error
                           ELSE IF critical THEN Propagated(r.exc, undo.exc)
                           ELSE r.exc.kind
           /\ seq_cancelled' = (seq_cancelled \/ critical)
           /\ seq_createFault' =
                 IF /\ cmd.op = "CreateNode"
                    /\ fault.at = "create"
                    /\ Len(r.st.objs) > Len(objs)
                 THEN Len(r.st.objs) ELSE seq_createFault
           /\ seq_redrop' = (cmd.op = "DropNode" /\ Dropped(ColState, cmd.node_id))
           /\ seq_outcome' =
                 Append(seq_outcome,
                        [index |-> NextIndex(seq_batch, seq_done),
                         kind |-> r.exc.kind,
                         node_id |-> r.exc.node_id,
                         res |-> r.res])
           /\ seq_lifecycle' = LifecycleStep(seq_lifecycle, ColState, cmd, r)
    /\ UNCHANGED <<seq_batch, seq_rv, seq_cancelAt>>
    /\ UNCHANGED notSeq

\* InfraProcessor.cancel_pending, called from another thread while the batch
\* is performed: SequentialStrategy.cancel_pending(), line 133 (a call
\* between two batches is undone by line 137 of the next _perform)
SeqCancel ==
    /\ seq_pc \in {"loop", "perform"}
    /\ seq_cancelled' = TRUE
    /\ seq_cancelAt' =
          IF seq_cancelAt # -1 THEN seq_cancelAt
          ELSE IF seq_pc = "perform" THEN seq_done + 1 ELSE seq_done
    /\ UNCHANGED <<seq_pc, seq_batch, seq_results, seq_done, seq_rv,
                   seq_error, seq_createFault, seq_redrop, seq_outcome,
                   seq_undo, seq_lifecycle, colVars>>
    /\ UNCHANGED notSeq

\* perform has returned or raised: push_instructions hands that to its
\* caller, the locals of _perform are gone and the processor is ready for
\* the next batch
SeqReturn ==
    /\ seq_pc \in {"returned", "raised"}
    /\ seq_pc' = "ready"
    /\ seq_batch' = <<>>
    /\ seq_results' = <<>>
    /\ seq_done' = 0
    /\ seq_rv' = [yielded |-> FALSE, list |-> <<>>]
    /\ seq_error' = "none"
    /\ seq_createFault' = 0
    /\ seq_redrop' = FALSE
    /\ seq_outcome' = <<>>
    /\ seq_undo' = NoUndo
    /\ seq_cancelAt' = -1
    /\ UNCHANGED <<seq_cancelled, seq_lifecycle, colVars>>
    /\ UNCHANGED notSeq

NextSeq ==
    \/ \E batch \in Batches : SeqBegin(batch)
    \/ SeqReturn
    \/ SeqLoop
    \/ \E fault \in Faults, drop_fault \in DropFaults :
          SeqPerform(fault, drop_fault)
    \/ SeqCancel

SpecSeq == InitSeq /\ [][NextSeq]_vars

C5_CreateFaultCompensated ==
    (seq_pc \in {"returned", "raised"} /\ seq_createFault # 0) =>
        /\ seq_pc = "raised"
        /\ seq_error = "NodeCreation"
        /\ \A e \in InfraIds : seq_createFault \notin Listing(ColState, e)

\* C7: a DropNode performed on the instance data of a node that a DropNode
\* dropped before raises nothing to the caller of perform.
C7_SecondDropSwallowed == ~(seq_pc = "raised" /\ seq_redrop)

\* C11: after create infrastructure, create node, drop node (with the
\* instance data the create returned) and drop infrastructure were performed
\* in this order from an empty broker, the broker is empty again; after the
\* first three, exactly the created infrastructure exists, it lists no
\* node, and no node is registered.
C11_LifecycleRoundTrip ==
    /\ seq_lifecycle = 3 =>
          /\ \E e \in InfraIds : environments[e].present
          /\ \A e \in InfraIds : environments[e].nodes = <<>>
          /\ \A n \in NodeIds : node_lookup[n] = 0
    /\ seq_lifecycle = 4 => Empty(ColState)

\* C11 witness: the four commands were performed and the last batch returned.
C11_Witness ==
    /\ seq_lifecycle = 4
    /\ seq_pc = "returned"
    /\ Len(objs) >= 1

\* C16: the sequential strategy performs the commands of a batch one after
\* the other in the order of the list it was given; a command is started
\* only while the strategy is not cancelled, so none is started after
\* cancel_pending() was called during the batch, and none after a command
\* raised anything but a Minor error; the list perform returns holds the
\* results of the commands performed, in that order.
C16_SequentialInSubmissionOrder ==
    /\ Len(seq_outcome) = seq_done
    /\ \A i \in 1..Len(seq_outcome) :
          /\ seq_outcome[i].index = i
          /\ seq_outcome[i].kind \notin {"none", "Minor"} =>
                i = Len(seq_outcome)
    /\ seq_cancelAt # -1 => Len(seq_outcome) <= seq_cancelAt
    /\ seq_pc = "returned" =>
          /\ Len(seq_rv.list) = Len(seq_outcome)
          /\ \A i \in 1..Len(seq_outcome) :
                seq_rv.list[i] = seq_outcome[i].res

\* C16 witness: cancel_pending() was called while the first command of a
\* batch of two was performed; perform returned the result of the first
\* command only.
C16_Witness ==
    /\ seq_pc = "returned"
    /\ Len(seq_batch) = 2
    /\ seq_cancelAt = 1
    /\ Len(seq_rv.list) = 1

(***************************************************************************)
(* Part 4.  ParallelProcessesStrategy and PerformProcess                   *)
(*          (src/occo/infraprocessor/strategy.py): one sub-process for     *)
(*          each command of the batch, working on the collaborators of     *)
(*          part 3, which all processes share (external services)          *)
(***************************************************************************)

\* the commands of the batches performed in parallel
ParCommands ==
    {c \in Commands : c.op \in {"CreateInfrastructure", "CreateNode"}}

ParBatches == UNION {[1..n -> ParCommands] : n \in 1..MaxBatch}

\* PerformProcess.__init__ and start
NewWorker(cmd) ==
    [cmd |-> cmd, pc |-> "start", sigint |-> FALSE, obj |-> 0,
     node_id |-> 0, orphan |-> FALSE, exc |-> NoException]

\* PerformProcess.return_result / return_exception: the tuple put on the
\* process's result queue; the queue of an earlier perform is read by nobody
Put(p, result, error) ==
    IF workers[p].orphan THEN result_queue
    ELSE Append(result_queue,
                [procid |-> p, result |-> result, error |-> error])

\* Strategy.perform, mutated: a critical error is raised without waiting
\* for the processes left
AfterResultNoWait(kind) ==
    CASE kind \in {"none", "Minor"} -> "collect"
      [] OTHER -> "raised"

\* _process_one_result, mutated: a Minor error is raised like any other
AfterResultMinorRaised(kind) ==
    CASE kind = "none" -> "collect"
      [] kind \in {"NodeCreation", "Critical"} -> "cancel_wait"
      [] OTHER -> "raised"

\* where _process_one_result leaves the parent: the loop of _perform goes on
\* after a result or a Minor error (lines 294-297); Strategy.perform handles
\* a NodeCreationError or another critical error by cancel_pending (lines
\* 77-86); any other exception is raised to the caller
AfterResult(kind) ==
    CASE kind \in {"none", "Minor"} -> "collect"
      [] kind \in {"NodeCreation", "Critical"} -> "cancel_wait"
      [] OTHER -> "raised"

\* _process_one_result, line 276, mutated: the result is stored counting
\* from the end of the list
StoreResultReversed(results, procid, result) ==
    [results EXCEPT ![Len(results) + 1 - procid] = result]

\* _process_one_result, line 276: self.results[procid] = result
StoreResult(results, procid, result) ==
    [results EXCEPT ![procid] = result]

\* ParallelProcessesStrategy.cancel_pending, line 311, mutated: every
\* critical error is compensated
UndoAlways(reason) == reason.kind \in {"NodeCreation", "Critical"}

\* ParallelProcessesStrategy.cancel_pending, line 311: isinstance(reason,
\* NodeCreationError) and 'instance_id' in reason.instance_data
UndoNeeded(reason) == reason.kind = "NodeCreation" /\ reason.has_instance

\* ParallelProcessesStrategy.cancel_pending, lines 304-309: os.kill(p.pid,
\* SIGINT) for every process of the table; a process that has ended cannot
\* be signalled, and the exception of os.kill is ignored
Signalled(ws, table) ==
    [w \in DOMAIN ws |->
        IF w \in table /\ ws[w].pc # "done"
        THEN [ws[w] EXCEPT !.sigint = TRUE]
        ELSE ws[w]]

\* ParallelProcessesStrategy.cancel_pending, mutated: the compensating
\* process is added to the table and started before the signals are sent
UndoStartedFirst(ws, table, undo_command) ==
    Signalled(Append(ws, NewWorker(undo_command)),
              table \cup {Len(ws) + 1})

\* ParallelProcessesStrategy.cancel_pending, lines 304-315: the signals are
\* sent to the processes of the table, then _add_process(undo_command) and
\* start
UndoStarted(ws, table, undo_command) ==
    Append(Signalled(ws, table), NewWorker(undo_command))

\* the compensating DropNode processes of this parallel batch
UndoWorkers ==
    {q \in DOMAIN workers :
        workers[q].cmd.op = "DropNode" /\ ~workers[q].orphan}

\* what the compensating DropNode process of this batch raised
UndoException ==
    IF UndoWorkers = {} THEN NoException
    ELSE workers[CHOOSE q \in UndoWorkers : TRUE].exc

AllListed == UNION {Listing(ColState, e) : e \in InfraIds}

InitPar ==
    /\ IdleIP
    /\ IdleRemote
    /\ IdleCol
    /\ IdleSeq
    /\ IdlePar
    /\ IdleWait
    /\ IdleRes
    /\ IdleBasic
    /\ IdleNode
    /\ IdleSynch
    /\ IdleContext

\* Strategy.perform enters ParallelProcessesStrategy._perform, lines 279-287:
\* a new result queue, then _generate_processes, whose assertion fails when
\* processes of an earlier perform are still in the table
ParBegin(batch) ==
    /\ par_pc \in {"idle", "returned", "raised"}
    /\ Len(objs) + CreateCount(batch) <= MaxNodes
    /\ par_batch' = batch
    /\ par_rv' = [yielded |-> FALSE, list |-> <<>>]
    /\ result_queue' = <<>>
    /\ par_outcome' = [i \in 1..Len(batch) |-> "none"]
    /\ par_listedBefore' = AllListed
    /\ IF processes # {}
       THEN /\ par_pc' = "raised"
            /\ par_error' = "Other"
            /\ workers' = [w \in DOMAIN workers |->
                              [workers[w] EXCEPT !.orphan = TRUE]]
            /\ UNCHANGED <<processes, par_results>>
       ELSE /\ par_pc' = "collect"
            /\ par_error' = "none"
            /\ processes' = 1..Len(batch)
            /\ par_results' = [i \in 1..Len(batch) |-> 0]
            /\ workers' = [i \in 1..Len(batch) |-> NewWorker(batch[i])]
    /\ UNCHANGED colVars
    /\ UNCHANGED notPar

\* ParallelProcessesStrategy._perform, lines 291-299, with
\* _process_one_result: one message is taken from the result queue.  A Minor
\* error is ignored; a NodeCreationError or another critical error reaches
\* Strategy.perform, which calls cancel_pending(ex), lines 304-315: SIGINT to
\* every process of the table, and a DropNode process when the error holds
\* an instance_id; any other exception leaves perform at once
ParCollect ==
    /\ par_pc = "collect"
    /\ IF processes = {}
       THEN /\ par_pc' = "returned"
            /\ par_rv' = [yielded |-> TRUE, list |-> par_results]
            /\ UNCHANGED <<processes, par_results, result_queue, workers,
                           par_error, par_outcome>>
       ELSE /\ result_queue # <<>>
            /\ LET msg == Head(result_queue)
                   kind == msg.error.kind
                   critical == kind \in {"NodeCreation", "Critical"}
                   undo == UndoNeeded(msg.error)
                   rest == processes \ {msg.procid}
                   index == Len(par_results) + 1
                   outcome == [par_outcome EXCEPT ![msg.procid] =
                                  CASE kind = "none" -> "success"
                                    [] kind = "Minor" -> "minor"
                                    [] critical -> "critical"
                                    [] OTHER -> "raw"]
                   undo_command == [op |-> "DropNode", infra_id |-> "",
                                    node_id |-> msg.error.node_id]
               IN  /\ result_queue' = Tail(result_queue)
                   /\ par_results' =
                         CASE kind = "none" ->
                                 StoreResult(par_results, msg.procid,
                                             msg.result)
                           [] undo -> Append(par_results, 0)
                           [] OTHER -> par_results
                   /\ par_outcome' =
                         IF undo THEN Append(outcome, "none") ELSE outcome
                   /\ processes' = IF undo THEN rest \cup {index} ELSE rest
                   /\ workers' =
                         CASE undo -> UndoStarted(workers, rest, undo_command)
                           [] critical -> Signalled(workers, rest)
                           [] OTHER -> workers
                   /\ par_pc' = AfterResult(kind)
                   /\ par_error' = IF kind \in {"none", "Minor"}
                                   THEN par_error ELSE kind
            /\ par_rv' = par_rv
    /\ UNCHANGED <<par_batch, par_listedBefore, colVars>>
    /\ UNCHANGED notPar

\* ParallelProcessesStrategy.cancel_pending, lines 317-327: wait for the
\* processes of the table, ignoring every exception they report; then
\* Strategy.perform raises the critical error again
ParCancelWait ==
    /\ par_pc = "cancel_wait"
    /\ IF processes = {}
       THEN /\ par_pc' = "raised"
            /\ par_error' = Propagated(Exception(par_error), UndoException)
            /\ UNCHANGED <<processes, par_results, result_queue, par_outcome>>
       ELSE /\ result_queue # <<>>
            /\ par_error' = par_error
            /\ LET msg == Head(result_queue)
                   kind == msg.error.kind
               IN  /\ result_queue' = Tail(result_queue)
                   /\ processes' = processes \ {msg.procid}
                   /\ par_results' =
                         IF kind = "none"
                         THEN StoreResult(par_results, msg.procid, msg.result)
                         ELSE par_results
                   /\ par_outcome' = [par_outcome EXCEPT ![msg.procid] =
                         CASE kind = "none" /\
                              workers[msg.procid].pc = "interrupted" ->
                                  "cancelled"
                           [] kind = "none" /\
                              workers[msg.procid].pc # "interrupted" ->
                                  "success"
                           [] kind = "Minor" -> "minor"
                           [] OTHER -> "ignored"]
            /\ par_pc' = par_pc
    /\ UNCHANGED <<par_batch, workers, par_rv, par_listedBefore, colVars>>
    /\ UNCHANGED notPar

\* PerformProcess.run of a CreateNode, first step: CreateNode.perform up to
\* servicecomposer.register_node
WkRegister(p) ==
    /\ p \in DOMAIN workers
    /\ workers[p].pc = "start"
    /\ workers[p].cmd.op = "CreateNode"
    /\ LET node_id == NewNodeId(ColState)
           reg == register_node(ColState, node_id, workers[p].cmd.infra_id)
       IN  /\ environments' = reg.st.environments
           /\ node_lookup' = reg.st.node_lookup
           /\ objs' = reg.st.objs
           /\ IF reg.exc.kind = "none"
              THEN /\ workers' = [workers EXCEPT ![p].pc = "registered",
                                                 ![p].obj = reg.res,
                                                 ![p].node_id = node_id]
                   /\ result_queue' = result_queue
              ELSE /\ workers' = [workers EXCEPT ![p].pc = "done",
                                                 ![p].exc = reg.exc]
                   /\ result_queue' = Put(p, 0, reg.exc)
    /\ UNCHANGED <<par_pc, par_batch, processes, par_results, par_error,
                   par_rv, par_outcome, par_listedBefore>>
    /\ UNCHANGED notPar

\* CreateNode.perform, line 96: cloudhandler.create_node returns or raises
WkCreate(p, fault) ==
    /\ p \in DOMAIN workers
    /\ workers[p].pc = "registered"
    /\ fault.at \in {"none", "create"}
    /\ IF fault.at = "none"
       THEN LET created == ch_create_node(ColState, workers[p].obj)
            IN  /\ objs' = created.st.objs
                /\ workers' = [workers EXCEPT ![p].pc = "created"]
                /\ result_queue' = result_queue
       ELSE /\ objs' = objs
            /\ workers' = [workers EXCEPT
                              ![p].pc = "done",
                              ![p].exc = FaultException(fault,
                                                        workers[p].node_id)]
            /\ result_queue' =
                  Put(p, 0, FaultException(fault, workers[p].node_id))
    /\ UNCHANGED <<environments, node_lookup>>
    /\ UNCHANGED <<par_pc, par_batch, processes, par_results, par_error,
                   par_rv, par_outcome, par_listedBefore>>
    /\ UNCHANGED notPar

\* CreateNode.perform, lines 100-131: wait_for_node returns or raises, and
\* the process puts the instance data or the exception on the result queue
WkFinish(p, fault) ==
    /\ p \in DOMAIN workers
    /\ workers[p].pc = "created"
    /\ fault.at \in {"none", "wait"}
    /\ workers' = [workers EXCEPT
                      ![p].pc = "done",
                      ![p].exc = IF fault.at = "none" THEN NoException
                                 ELSE FaultException(fault,
                                                     workers[p].node_id)]
    /\ result_queue' =
          IF fault.at = "none"
          THEN Put(p, workers[p].node_id, NoException)
          ELSE Put(p, 0, FaultException(fault, workers[p].node_id))
    /\ UNCHANGED colVars
    /\ UNCHANGED <<par_pc, par_batch, processes, par_results, par_error,
                   par_rv, par_outcome, par_listedBefore>>
    /\ UNCHANGED notPar

\* PerformProcess.run of a CreateInfrastructure
WkSimple(p) ==
    /\ p \in DOMAIN workers
    /\ workers[p].pc = "start"
    /\ workers[p].cmd.op = "CreateInfrastructure"
    /\ LET r == Perform(ColState, workers[p].cmd,
                        [at |-> "none", kind |-> "none"])
       IN  /\ environments' = r.st.environments
           /\ node_lookup' = r.st.node_lookup
           /\ objs' = r.st.objs
           /\ result_queue' = Put(p, r.res, r.exc)
           /\ workers' = [workers EXCEPT ![p].pc = "done", ![p].exc = r.exc]
    /\ UNCHANGED <<par_pc, par_batch, processes, par_results, par_error,
                   par_rv, par_outcome, par_listedBefore>>
    /\ UNCHANGED notPar

\* PerformProcess.run of the compensating DropNode, first step:
\* cloudhandler.drop_node
WkDropCloud(p, drop_fault) ==
    /\ p \in DOMAIN workers
    /\ workers[p].pc = "start"
    /\ workers[p].cmd.op = "DropNode"
    /\ LET ch == IF drop_fault # "none"
                 THEN Raised(ColState, Exception(drop_fault))
                 ELSE ch_drop_node(ColState, workers[p].cmd.node_id)
       IN  /\ objs' = ch.st.objs
           /\ IF ch.exc.kind = "none"
              THEN /\ workers' = [workers EXCEPT ![p].pc = "ch_dropped"]
                   /\ result_queue' = result_queue
              ELSE /\ workers' = [workers EXCEPT ![p].pc = "done",
                                                 ![p].exc = ch.exc]
                   /\ result_queue' = Put(p, 0, ch.exc)
    /\ UNCHANGED <<environments, node_lookup>>
    /\ UNCHANGED <<par_pc, par_batch, processes, par_results, par_error,
                   par_rv, par_outcome, par_listedBefore>>
    /\ UNCHANGED notPar

\* the compensating DropNode, second step: servicecomposer.drop_node
WkDropConfig(p) ==
    /\ p \in DOMAIN workers
    /\ workers[p].pc = "ch_dropped"
    /\ LET sc == sc_drop_node(ColState, workers[p].cmd.node_id)
       IN  /\ environments' = sc.st.environments
           /\ node_lookup' = sc.st.node_lookup
           /\ objs' = sc.st.objs
           /\ result_queue' = Put(p, 0, sc.exc)
           /\ workers' = [workers EXCEPT ![p].pc = "done", ![p].exc = sc.exc]
    /\ UNCHANGED <<par_pc, par_batch, processes, par_results, par_error,
                   par_rv, par_outcome, par_listedBefore>>
    /\ UNCHANGED notPar

\* PerformProcess.run, lines 198-201: SIGINT arrives while the command is
\* performed; the process reports the result None
WkInterrupt(p) ==
    /\ p \in DOMAIN workers
    /\ workers[p].sigint
    /\ workers[p].pc \notin {"done", "interrupted", "killed"}
    /\ workers' = [workers EXCEPT ![p].pc = "interrupted"]
    /\ result_queue' = Put(p, 0, NoException)
    /\ UNCHANGED colVars
    /\ UNCHANGED <<par_pc, par_batch, processes, par_results, par_error,
                   par_rv, par_outcome, par_listedBefore>>
    /\ UNCHANGED notPar

\* PerformProcess.run, lines 202-203: the command of a CreateNode raised an
\* exception and SIGINT arrives inside the except clause, before
\* signal.signal(SIGINT, SIG_IGN) has run: the KeyboardInterrupt is raised
\* inside the handler, no clause of the same try statement catches it, and
\* the process ends without putting anything on the result queue
WkInterruptInHandler(p, fault) ==
    /\ p \in DOMAIN workers
    /\ workers[p].sigint
    /\ \/ workers[p].pc = "registered" /\ fault.at = "create"
       \/ workers[p].pc = "created" /\ fault.at = "wait"
    /\ workers' = [workers EXCEPT
                      ![p].pc = "killed",
                      ![p].exc = FaultException(fault, workers[p].node_id)]
    /\ UNCHANGED result_queue
    /\ UNCHANGED colVars
    /\ UNCHANGED <<par_pc, par_batch, processes, par_results, par_error,
                   par_rv, par_outcome, par_listedBefore>>
    /\ UNCHANGED notPar

ProcIds == 1..(MaxBatch + 1)

NextPar ==
    \/ \E batch \in ParBatches : ParBegin(batch)
    \/ ParCollect
    \/ ParCancelWait
    \/ \E p \in ProcIds : WkRegister(p)
    \/ \E p \in ProcIds, fault \in Faults : WkCreate(p, fault)
    \/ \E p \in ProcIds, fault \in Faults : WkFinish(p, fault)
    \/ \E p \in ProcIds : WkSimple(p)
    \/ \E p \in ProcIds, drop_fault \in DropFaults :
          WkDropCloud(p, drop_fault)
    \/ \E p \in ProcIds : WkDropConfig(p)
    \/ \E p \in ProcIds : WkInterrupt(p)
    \/ \E p \in ProcIds, fault \in Faults : WkInterruptInHandler(p, fault)

SpecPar == InitPar /\ [][NextPar]_vars

\* C4: when perform ends, by returning or by raising, the parent has
\* received the message of every command of the batch: none is left without
\* an outcome.
C4_EveryCommandHasOutcome ==
    par_pc \in {"returned", "raised"} =>
        \A i \in 1..Len(par_batch) : par_outcome[i] # "none"

\* the batch is n CreateNode commands for infra e and each brought its
\* instance data back
AllCreated(e) ==
    /\ par_pc = "returned"
    /\ \A i \in 1..Len(par_batch) :
          /\ par_batch[i].op = "CreateNode"
          /\ par_batch[i].infra_id = e
          /\ par_rv.list[i] # 0

\* C9: when perform returns a batch of n CreateNode commands for an existing
\* infra e under the parallel strategy, all of them successful, exactly n
\* nodes have been added to the node list of e, their node ids are pairwise
\* distinct and are the ids returned, and each node is started, in whatever
\* order the processes ran and reported.
C9_ParallelCreatesDistinctStartedNodes ==
    \A e \in InfraIds :
        AllCreated(e) =>
            LET new == Listing(ColState, e) \ par_listedBefore
                ids == {objs[o].node_id : o \in new}
            IN  /\ Cardinality(new) = Len(par_batch)
                /\ Cardinality(ids) = Len(par_batch)
                /\ ids = Range(par_rv.list)
                /\ \A o \in new : objs[o].started

\* C9 witness: two CreateNode commands returned, and the process of the
\* second command registered its node before that of the first.
C9_Witness ==
    /\ AllCreated("env-1")
    /\ Len(par_batch) = 2
    /\ par_rv.list[2] < par_rv.list[1]
    /\ Cardinality(Listing(ColState, "env-1")) = 2

\* what the i-th command of this parallel batch produced: the instance data
\* of the node its own process registered for a CreateNode that succeeded,
\* None otherwise
ResultOf(i) ==
    IF par_outcome[i] = "success" /\ par_batch[i].op = "CreateNode"
    THEN workers[i].node_id
    ELSE 0

\* C17: when perform returns under the parallel strategy, the result list
\* has exactly one entry for each command of the batch, process i performed
\* the i-th command, and entry i is what that process produced, in whatever
\* order the processes ran and reported.
C17_ParallelResultsBySubmissionIndex ==
    par_pc = "returned" =>
        /\ Len(par_rv.list) = Len(par_batch)
        /\ \A i \in 1..Len(par_batch) :
              /\ workers[i].cmd = par_batch[i]
              /\ par_rv.list[i] = ResultOf(i)

\* C17 witness: a batch of two CreateNode commands returned both nodes, and
\* the process of the second command had registered its node before the
\* process of the first did.
C17_Witness ==
    /\ par_pc = "returned"
    /\ Len(par_batch) = 2
    /\ par_rv.list[1] # 0
    /\ par_rv.list[2] # 0
    /\ workers[2].obj < workers[1].obj

\* the processes of this parallel batch that have not yet put their message
\* on the result queue
Running ==
    {p \in DOMAIN workers :
        ~workers[p].orphan /\ workers[p].pc \notin {"done", "interrupted"}}

\* C18: under the parallel strategy, once a NodeCreationError or another
\* critical error has reached perform, every process of the batch that has
\* not delivered its message, except the compensating DropNode, has been
\* sent SIGINT; and when perform raises the error to its caller, every
\* process of the batch, the compensating one included, has delivered its
\* message and the parent has taken it from the queue.
C18_CriticalErrorInterruptsAndWaits ==
    (par_pc \in {"cancel_wait", "raised"} /\
     par_error \in {"NodeCreation", "Critical"}) =>
        /\ \A p \in Running \ UndoWorkers : workers[p].sigint
        /\ par_pc = "raised" =>
              /\ processes = {}
              /\ Running = {}
              /\ result_queue = <<>>
              /\ \A p \in 1..Len(par_outcome) : par_outcome[p] # "none"

\* C18 witness: perform raised the NodeCreationError of one process after
\* the process of the other command was interrupted and the compensating
\* DropNode had finished.
C18_Witness ==
    /\ par_pc = "raised"
    /\ par_error = "NodeCreation"
    /\ Len(par_batch) = 2
    /\ \E p \in 1..2 : workers[p].pc = "interrupted"
    /\ \E q \in UndoWorkers : workers[q].pc = "done"

\* C37: whenever ParallelProcessesStrategy._perform can be entered (no
\* perform call is under way on the strategy object) the table of
\* outstanding processes is empty, however the earlier perform calls
\* ended, so the assertion of _generate_processes holds.
C37_TableEmptyAtEntry ==
    par_pc \in {"idle", "returned", "raised"} => processes = {}

\* the messages of process p waiting in the result queue
MessagesOf(p) ==
    {i \in 1..Len(result_queue) : result_queue[i].procid = p}

\* the process has left PerformProcess.run
Ended(p) == workers[p].pc \in {"done", "interrupted", "killed"}

\* C38: every process of the table puts exactly one message on the result
\* queue, wherever the interrupt reaches it: a process the parent still
\* waits for has one message in the queue when it has ended and none
\* before, so the wait loops of the parent get a message for each process.
C38_EveryWorkerReportsOnce ==
    \A p \in processes :
        ~workers[p].orphan =>
            Cardinality(MessagesOf(p)) = IF Ended(p) THEN 1 ELSE 0

\* C39: the compensating DropNode process is started after the interrupt
\* was sent to the outstanding processes and is never sent it, and it exists
\* only for a NodeCreationError whose instance data holds an instance_id:
\* some process of the batch raised such an error for the node it drops.
C39_UndoStartedAfterInterrupt ==
    \A q \in UndoWorkers :
        /\ ~workers[q].sigint
        /\ \E p \in DOMAIN workers :
              /\ workers[p].exc.kind = "NodeCreation"
              /\ workers[p].exc.has_instance
              /\ workers[p].exc.node_id = workers[q].cmd.node_id

\* C39 witness: the process of one command raised a NodeCreationError with
\* an instance_id, the process of the other command was sent the interrupt
\* and reported the cancellation, and the compensating process is running.
C39_Witness ==
    /\ par_pc = "cancel_wait"
    /\ Len(par_batch) = 2
    /\ \E p \in 1..2 : workers[p].pc = "interrupted"
    /\ \E q \in UndoWorkers : workers[q].pc = "ch_dropped"

(***************************************************************************)
(* Part 4b. An InfraProcessor with either strategy: BasicInfraProcessor    *)
(*          instantiates one Strategy (basic_infraprocessor.py, lines      *)
(*          193-197) and every batch is performed by it                    *)
(***************************************************************************)

\* the processor was built with process_strategy='sequential'
StrategySequential ==
    /\ par_pc = "idle"
    /\ NextSeq

\* the processor was built with process_strategy='parallel'
StrategyParallel ==
    /\ seq_pc = "idle"
    /\ NextPar

NextStrategies ==
    \/ StrategySequential
    \/ StrategyParallel

SpecStrategies == InitSeq /\ [][NextStrategies]_vars

\* the kinds of exception the commands performed in this sequential batch
\* raised
SeqKinds == {seq_outcome[i].kind : i \in 1..Len(seq_outcome)}

\* the outcomes of the commands of this parallel batch
ParKinds == {par_outcome[i] : i \in 1..Len(par_batch)}

\* entry i of the result list is the instance data of a node of its own
OwnNode(list, i) ==
    /\ list[i] \in IssuedIds(ColState)
    /\ \A j \in 1..Len(list) : j # i => list[j] # list[i]

SeqMinorOnly ==
    /\ seq_pc \in {"returned", "raised"}
    /\ "Minor" \in SeqKinds
    /\ SeqKinds \subseteq {"none", "Minor"}
    /\ ~seq_cancelled

ParMinorOnly ==
    /\ par_pc \in {"returned", "raised"}
    /\ "minor" \in ParKinds
    /\ ParKinds \subseteq {"minor", "success"}

\* C12: under either strategy, when perform has ended on a batch in which
\* commands failed with a Minor error and no command failed otherwise (and
\* the batch was not cancelled), perform has returned a list with one entry
\* for each command of the batch: None at the position of each command that
\* failed with the Minor error, and for every other command, all of them
\* performed, its own result (for a CreateNode the instance data of a node
\* of its own).
C12_MinorErrorLeavesNoneAndContinues ==
    /\ SeqMinorOnly =>
          /\ seq_pc = "returned"
          /\ seq_rv.yielded
          /\ Len(seq_rv.list) = Len(seq_batch)
          /\ Len(seq_outcome) = Len(seq_batch)
          /\ \A i \in 1..Len(seq_batch) :
                /\ seq_outcome[i].index = i
                /\ seq_outcome[i].kind = "Minor" => seq_rv.list[i] = 0
                /\ (seq_outcome[i].kind = "none" /\
                    seq_batch[i].op = "CreateNode") =>
                       OwnNode(seq_rv.list, i)
    /\ ParMinorOnly =>
          /\ par_pc = "returned"
          /\ par_rv.yielded
          /\ Len(par_rv.list) = Len(par_batch)
          /\ \A i \in 1..Len(par_batch) :
                /\ par_outcome[i] = "minor" => par_rv.list[i] = 0
                /\ (par_outcome[i] = "success" /\
                    par_batch[i].op = "CreateNode") =>
                       OwnNode(par_rv.list, i)

\* C12 witness: a parallel batch of two CreateNode commands returned; the
\* first failed with a Minor error, the second created its node.
C12_Witness ==
    /\ par_pc = "returned"
    /\ Len(par_batch) = 2
    /\ par_outcome[1] = "minor"
    /\ par_outcome[2] = "success"
    /\ par_rv.list[1] = 0
    /\ par_rv.list[2] # 0

\* the processes of this parallel batch whose command raised a
\* NodeCreationError
ParNodeCreationFailed ==
    {p \in DOMAIN workers :
        /\ p <= Len(par_batch)
        /\ ~workers[p].orphan
        /\ workers[p].exc.kind = "NodeCreation"}

\* C13, as the specification states it: under either strategy, when perform
\* has ended, for every command of the batch that raised a NodeCreationError
\* a DropNode was dispatched for the node of that error's instance data, and
\* (sequential strategy) no command was performed after it.
C13_EveryNodeCreationErrorCompensated ==
    /\ seq_pc \in {"returned", "raised"} =>
          \A i \in 1..Len(seq_outcome) :
              seq_outcome[i].kind = "NodeCreation" =>
                  /\ i = Len(seq_outcome)
                  /\ seq_undo.dispatched
                  /\ seq_undo.node_id = seq_outcome[i].node_id
    /\ par_pc \in {"returned", "raised"} =>
          \A p \in ParNodeCreationFailed :
              \E q \in UndoWorkers :
                  workers[q].cmd.node_id = workers[p].exc.node_id

\* C14: whatever the compensating DropNode raises, the error perform raises
\* to its caller is the NodeCreationError that caused the compensation: the
\* one of the command performed last (sequential strategy), the one of the
\* process whose node the DropNode was dispatched for (parallel strategy).
C14_CompensationErrorNeverMasks ==
    /\ (seq_pc = "raised" /\ seq_undo.dispatched) =>
          /\ seq_outcome[Len(seq_outcome)].kind = "NodeCreation"
          /\ seq_error = "NodeCreation"
    /\ (par_pc = "raised" /\ UndoWorkers # {}) =>
          /\ par_error = "NodeCreation"
          /\ \A q \in UndoWorkers :
                \E p \in ParNodeCreationFailed :
                    workers[p].exc.node_id = workers[q].cmd.node_id

\* C14 witness: a sequential batch ended with the NodeCreationError of its
\* last command although the compensating DropNode raised a critical error.
C14_Witness ==
    /\ seq_pc = "raised"
    /\ seq_undo.dispatched
    /\ seq_undo.kind = "Critical"
    /\ seq_error = "NodeCreation"

\* C15: when a command fails with a critical error that is not a
\* NodeCreationError, perform raises that error and no compensating
\* DropNode is dispatched.  Under the sequential strategy the failing
\* command is the last one performed and the strategy is cancelled; under
\* the parallel strategy, where the error is the first critical one to
\* reach the parent, every process still in the table is waited for.
C15_OtherCriticalErrorNotCompensated ==
    /\ (seq_pc \in {"returned", "raised"} /\ "Critical" \in SeqKinds) =>
          /\ seq_pc = "raised"
          /\ seq_error = "Critical"
          /\ seq_outcome[Len(seq_outcome)].kind = "Critical"
          /\ Len(seq_outcome) = seq_done
          /\ seq_cancelled
          /\ ~seq_undo.dispatched
    /\ \A p \in 1..Len(par_batch) :
          (/\ par_pc \in {"cancel_wait", "returned", "raised"}
           /\ par_outcome[p] = "critical"
           /\ workers[p].exc.kind = "Critical") =>
              /\ par_pc # "returned"
              /\ par_error = "Critical"
              /\ UndoWorkers = {}
              /\ par_pc = "raised" => processes = {}

\* C15 witness: the first command of a sequential batch of two raised a
\* critical error; perform raised it, the second command was not performed
\* and no DropNode was dispatched.
C15_Witness ==
    /\ seq_pc = "raised"
    /\ seq_error = "Critical"
    /\ Len(seq_batch) = 2
    /\ seq_done = 1
    /\ ~seq_undo.dispatched

(***************************************************************************)
(* Part 5.  wait_for_node and sleep                                        *)
(*          (src/occo/infraprocessor/synchronization/__init__.py)          *)
(*                                                                         *)
(* Time is counted in whole seconds.  Only the sleep between two polls     *)
(* takes time: time.sleep(poll_delay) takes poll_delay, every other        *)
(* statement takes none.                                                   *)
(***************************************************************************)

\* Largest timeout.
MaxTimeout == 3
\* Largest poll_delay.
MaxPoll == 2
\* Latest time at which wait_for_node is called.
MaxStart == 1

\* no sleep begins after this time
ClockCap == MaxStart + MaxTimeout + 2 * MaxPoll

Statuses == {"pending", "ready", "shutdown", "fail"}

\* wait_for_node, line 128, mutated: the deadline is noticed a second late
TimedOutLate(timeout, now, finish_time) ==
    timeout # 0 /\ now > finish_time + 1

\* wait_for_node, line 128, mutated: the deadline is compared also when no
\* timeout was given
TimedOutUnguarded(timeout, now, finish_time) == now > finish_time

\* wait_for_node, line 128: timeout and time.time() > finish_time
TimedOut(timeout, now, finish_time) == timeout # 0 /\ now > finish_time

InitWait ==
    /\ IdleIP
    /\ IdleRemote
    /\ IdleCol
    /\ IdleSeq
    /\ IdlePar
    /\ IdleRes
    /\ IdleBasic
    /\ IdleNode
    /\ IdleSynch
    /\ IdleContext
    /\ wt_pc = "idle"
    /\ wt_now \in 0..MaxStart
    /\ wt_timeout = 0
    /\ wt_poll = 1
    /\ wt_event = "none"
    /\ wt_start = 0
    /\ wt_finish = 0
    /\ wt_status = "pending"

\* wait_for_node, lines 110-126: the deadline is computed when a timeout is
\* given, then the status is asked for the first time
WaitCall(timeout, poll_delay, event, status) ==
    /\ wt_pc \in {"idle", "returned", "timed_out", "failed", "cancelled",
                  "error"}
    /\ wt_now <= MaxStart
    /\ wt_pc' = "while"
    /\ wt_timeout' = timeout
    /\ wt_poll' = poll_delay
    /\ wt_event' = event
    /\ wt_start' = IF timeout # 0 THEN wt_now ELSE 0
    /\ wt_finish' = IF timeout # 0 THEN wt_now + timeout ELSE 0
    /\ wt_status' = status
    /\ UNCHANGED wt_now
    /\ UNCHANGED notWait

\* wait_for_node, lines 127 and 145: while status != READY
WaitWhile ==
    /\ wt_pc = "while"
    /\ wt_pc' = IF wt_status = "ready" THEN "returned" ELSE "check"
    /\ UNCHANGED <<wt_now, wt_timeout, wt_poll, wt_event, wt_start,
                   wt_finish, wt_status>>
    /\ UNCHANGED notWait

\* wait_for_node, lines 128-136: the deadline, then the failed statuses
WaitCheck ==
    /\ wt_pc = "check"
    /\ wt_pc' = CASE TimedOut(wt_timeout, wt_now, wt_finish) -> "timed_out"
                  [] ~TimedOut(wt_timeout, wt_now, wt_finish) /\
                     wt_status \in {"shutdown", "fail"} -> "failed"
                  [] OTHER -> "sleep"
    /\ UNCHANGED <<wt_now, wt_timeout, wt_poll, wt_event, wt_start,
                   wt_finish, wt_status>>
    /\ UNCHANGED notWait

\* wait_for_node, lines 140-143, with sleep, lines 46-57.  Without a cancel
\* event the thread sleeps poll_delay and asks for the status again.  With
\* one, cancel_event.wait returns at once when the event is set and after
\* poll_delay otherwise; then cancel_event.isset() raises AttributeError
\* (threading.Event has is_set and isSet only)
WaitSleep(status) ==
    /\ wt_pc = "sleep"
    /\ wt_now + wt_poll <= ClockCap
    /\ IF wt_event = "none"
       THEN /\ wt_now' = wt_now + wt_poll
            /\ wt_status' = status
            /\ wt_pc' = "while"
       ELSE /\ wt_now' = IF wt_event = "set" THEN wt_now
                         ELSE wt_now + wt_poll
            /\ wt_status' = wt_status
            /\ wt_pc' = "error"
    /\ UNCHANGED <<wt_timeout, wt_poll, wt_event, wt_start, wt_finish>>
    /\ UNCHANGED notWait

\* another thread sets the cancel event
WaitSetEvent ==
    /\ wt_event = "clear"
    /\ wt_event' = "set"
    /\ UNCHANGED <<wt_pc, wt_now, wt_timeout, wt_poll, wt_start, wt_finish,
                   wt_status>>
    /\ UNCHANGED notWait

NextWait ==
    \/ \E timeout \in 0..MaxTimeout, poll_delay \in 1..MaxPoll,
          event \in {"none", "clear", "set"}, status \in Statuses :
          WaitCall(timeout, poll_delay, event, status)
    \/ WaitWhile
    \/ WaitCheck
    \/ \E status \in Statuses : WaitSleep(status)
    \/ WaitSetEvent

SpecWait == InitWait /\ [][NextWait]_vars

C20_FailedStatusRaisesNodeFailedError ==
    wt_status \in {"shutdown", "fail"} =>
        wt_pc \notin {"timed_out", "sleep", "error", "cancelled"}

\* C21: when wait_for_node was given a cancel event and the event is set
\* while the node is not ready, the sleep between two polls reports the
\* cancellation and wait_for_node returns without raising: it does not end
\* with an error raised by the sleep.
C21_SetEventEndsCancelled ==
    wt_event = "set" => wt_pc # "error"

\* C35: wait_for_node raises NodeCreationTimeOutError only when a timeout
\* T > 0 was given, never before start + T, and never later than
\* start + T + poll_delay: the deadline is detected at the first poll after
\* it passed.  With timeout None or 0 the error is never raised.
C35_TimeoutRaisedInsideWindow ==
    wt_pc = "timed_out" =>
        /\ wt_timeout > 0
        /\ wt_now >= wt_start + wt_timeout
        /\ wt_now <= wt_start + wt_timeout + wt_poll

\* C35 witness: a call made at time 1 with poll_delay 2 raised the timeout
\* one second after the deadline, inside the window.
C35_Witness ==
    /\ wt_pc = "timed_out"
    /\ wt_start = MaxStart
    /\ wt_poll = 2
    /\ wt_now = wt_start + wt_timeout + 1

(***************************************************************************)
(* Part 6.  IdentityResolver, the resolver of definitions already resolved *)
(*          (src/occo/infraprocessor/node_resolution/resolution.py)        *)
(***************************************************************************)

Values == {"v1", "v2"}

\* the dicts over Keys
Dicts == [Keys -> Values \cup {Absent}]

\* the keys IdentityResolver.resolve_node assigns
InjectedKeys == {"node_id", "infra_id", "user_id"}

\* IdentityResolver.resolve_node, mutated: the resolver builds the
\* definition anew from the three values
ResolvedAnew(node_definition, node_id, desc) ==
    [k \in Keys |->
        CASE k = "node_id" -> node_id
          [] k = "infra_id" -> desc["infra_id"]
          [] k = "user_id" -> desc["user_id"]
          [] OTHER -> Absent]

\* IdentityResolver.resolve_node, lines 103-106, for a description that
\* holds infra_id and user_id
Resolved(node_definition, node_id, desc) ==
    [node_definition EXCEPT !["node_id"] = node_id,
                            !["infra_id"] = desc["infra_id"],
                            !["user_id"] = desc["user_id"]]

\* lines 103-105 alone: desc['infra_id'] raised KeyError
ResolvedNodeIdOnly(node_definition, node_id) ==
    [node_definition EXCEPT !["node_id"] = node_id]

\* lines 103-105 alone: desc['user_id'] raised KeyError
ResolvedUpToInfra(node_definition, node_id, desc) ==
    [node_definition EXCEPT !["node_id"] = node_id,
                            !["infra_id"] = desc["infra_id"]]

\* a resolver is built for a node id and a node description; the definition
\* comes from an earlier resolution
InitRes ==
    /\ IdleIP
    /\ IdleRemote
    /\ IdleCol
    /\ IdleSeq
    /\ IdlePar
    /\ IdleWait
    /\ IdleBasic
    /\ IdleNode
    /\ IdleSynch
    /\ IdleContext
    /\ rs_pc = "built"
    /\ rs_definition \in Dicts
    /\ rs_description \in
          {d \in Dicts : d["node_id"] = Absent /\ d["backend_id"] = Absent}
    /\ rs_node_id \in Values
    /\ rs_before = rs_definition

\* IdentityResolver.resolve_node; a key the description lacks raises
\* KeyError after the assignments before it
ResolveNode ==
    /\ rs_pc = "built"
    /\ rs_before' = rs_definition
    /\ CASE rs_description["infra_id"] = Absent ->
              /\ rs_definition' =
                    ResolvedNodeIdOnly(rs_definition, rs_node_id)
              /\ rs_pc' = "raised"
         [] rs_description["infra_id"] # Absent /\
            rs_description["user_id"] = Absent ->
              /\ rs_definition' =
                    ResolvedUpToInfra(rs_definition, rs_node_id,
                                      rs_description)
              /\ rs_pc' = "raised"
         [] OTHER ->
              /\ rs_definition' =
                    Resolved(rs_definition, rs_node_id, rs_description)
              /\ rs_pc' = "resolved"
    /\ UNCHANGED <<rs_description, rs_node_id>>
    /\ UNCHANGED notRes

\* Resolver.__init__: another resolver is built for the resolved definition
ResolverBuilt(node_id, desc) ==
    /\ rs_pc = "resolved"
    /\ rs_pc' = "built"
    /\ rs_node_id' = node_id
    /\ rs_description' = desc
    /\ rs_before' = rs_definition
    /\ UNCHANGED rs_definition
    /\ UNCHANGED notRes

NextRes ==
    \/ ResolveNode
    \/ \E node_id \in Values :
          \E desc \in {d \in Dicts : d["node_id"] = Absent /\
                                     d["backend_id"] = Absent /\
                                     d["name"] = Absent} :
              ResolverBuilt(node_id, desc)

SpecRes == InitRes /\ [][NextRes]_vars

Strings == {"plain", "template"}

\* a reference to an object is written as the object's name
Ref(o) == o

IsRef(v) == v \in Objects

\* jinja2.Template(attrs).render(**template_data), mutated: the text is
\* handed back as it is
RenderVerbatim(v) == v

\* attr_template_resolve, lines 53-55: jinja2.Template(attrs).render(...)
Render(v) == IF v = "template" THEN "rendered" ELSE v

\* attr_template_resolve, lines 45-57: a dict or a list is rendered in
\* place, slot by slot, and handed back itself; a string is rendered
RECURSIVE attr_template_resolve(_, _)
attr_template_resolve(heap, obj) ==
    LET inner == {o \in Objects : Ref(o) \in {heap[obj][k] : k \in Slots}}
        RECURSIVE Each(_, _)
        Each(h, todo) ==
            IF todo = {} THEN h
            ELSE LET o == CHOOSE x \in todo : TRUE
                 IN  Each(attr_template_resolve(h, o), todo \ {o})
        below == Each(heap, inner)
    IN  [below EXCEPT ![obj] =
            [k \in Slots |-> IF IsRef(below[obj][k]) THEN below[obj][k]
                             ELSE Render(below[obj][k])]]

\* dict.update (line 82): the values of src, references included, are
\* stored under their keys in dst
Updated(heap, dst, src) ==
    [heap EXCEPT ![dst] =
        [k \in Slots |-> IF heap[src][k] # Absent THEN heap[src][k]
                         ELSE heap[dst][k]]]

\* the value of node_desc['attributes'] as its owner reads it: every key
\* with its string, or with the content of the dict or list it holds
DescriptionAttributes(heap) ==
    [k \in Slots |->
        [value |-> heap["desc_attributes"][k],
         content |-> IF IsRef(heap["desc_attributes"][k])
                     THEN heap[heap["desc_attributes"][k]]
                     ELSE [j \in Slots |-> Absent]]]

\* _resolve_node is called for a node description and a node definition
InitBasic ==
    /\ IdleIP
    /\ IdleRemote
    /\ IdleCol
    /\ IdleSeq
    /\ IdlePar
    /\ IdleWait
    /\ IdleRes
    /\ IdleNode
    /\ IdleSynch
    /\ IdleContext
    /\ br_pc = "called"
    /\ br_heap \in
          {h \in [Objects -> [Slots -> Strings \cup {Absent, Ref("desc_nested")}]] :
              /\ \A o \in Objects : h[o]["connections"] = Absent
              /\ \A k \in Slots :
                    /\ h["new_dict"][k] = Absent
                    /\ ~IsRef(h["desc_nested"][k])
                    /\ ~IsRef(h["def_attributes"][k])}
    /\ br_attrs = "none"
    /\ br_before = br_heap

\* resolve_attributes, line 81: attrs is the 'attributes' dict of the
\* definition's 'contextualisation' when it has one, a new dict otherwise
GetAttributes(has_attributes) ==
    /\ br_pc = "called"
    /\ br_attrs' = IF has_attributes THEN "def_attributes" ELSE "new_dict"
    /\ br_pc' = "update"
    /\ UNCHANGED <<br_heap, br_before>>
    /\ UNCHANGED notBasic

\* resolve_attributes, line 82:
\* attrs.update(node_desc.get('attributes', dict()))
UpdateAttributes ==
    /\ br_pc = "update"
    /\ br_heap' = Updated(br_heap, br_attrs, "desc_attributes")
    /\ br_pc' = "template"
    /\ UNCHANGED <<br_attrs, br_before>>
    /\ UNCHANGED notBasic

\* resolve_attributes, line 85: self.attr_template_resolve(attrs, ...)
TemplateResolve ==
    /\ br_pc = "template"
    /\ br_heap' = attr_template_resolve(br_heap, br_attrs)
    /\ br_pc' = "connect"
    /\ UNCHANGED <<br_attrs, br_before>>
    /\ UNCHANGED notBasic

\* resolve_attributes, line 86, and attr_connect_resolve, line 72:
\* attrs['connections'] = connections; then _resolve_node stores attrs in
\* the definition (line 175)
ConnectResolve ==
    /\ br_pc = "connect"
    /\ br_heap' = [br_heap EXCEPT ![br_attrs]["connections"] = "plain"]
    /\ br_pc' = "resolved"
    /\ UNCHANGED <<br_attrs, br_before>>
    /\ UNCHANGED notBasic

NextBasic ==
    \/ \E has_attributes \in BOOLEAN : GetAttributes(has_attributes)
    \/ UpdateAttributes
    \/ TemplateResolve
    \/ ConnectResolve

SpecBasic == InitBasic /\ [][NextBasic]_vars

\* C24: resolving a node leaves the node description unchanged: after
\* _resolve_node every attribute of the description, the dicts and lists
\* nested in its attributes included, equals its value before the call.
C24_ResolveLeavesDescriptionUnchanged ==
    br_pc = "resolved" =>
        DescriptionAttributes(br_heap) = DescriptionAttributes(br_before)

(***************************************************************************)
(* Part 8.  CreateNode.perform and DropNode.perform call by call, with the *)
(*          service composer, the cloud handler and the UDS                *)
(*          (src/occo/infraprocessor/basic_infraprocessor.py)              *)
(*                                                                         *)
(* Every call to a collaborator either returns or raises; perform catches  *)
(* nothing (the handler around wait_for_node raises again).                *)
(***************************************************************************)

\* CreateNode.perform, mutated: the instance data is stored before the cloud
\* handler is asked for the instance
CallAfterStoredEarly(call) ==
    CASE call = "resolve_node" -> "register_node"
      [] call = "register_node" -> "register_started_node"
      [] call = "register_started_node" -> "create_node"
      [] call = "create_node" -> "ib.get"
      [] call = "ib.get" -> "wait_for_node"
      [] call = "wait_for_node" -> "returned"
      [] call = "cloudhandler.drop_node" -> "servicecomposer.drop_node"
      [] call = "servicecomposer.drop_node" -> "returned"

\* DropNode.perform, mutated: the service composer is called first
CallAfterConfigFirst(call) ==
    CASE call = "resolve_node" -> "register_node"
      [] call = "register_node" -> "create_node"
      [] call = "create_node" -> "register_started_node"
      [] call = "register_started_node" -> "ib.get"
      [] call = "ib.get" -> "wait_for_node"
      [] call = "wait_for_node" -> "returned"
      [] call = "servicecomposer.drop_node" -> "cloudhandler.drop_node"
      [] call = "cloudhandler.drop_node" -> "returned"

\* the statement that follows a call that returned: CreateNode.perform,
\* lines 90, 95, 96, 108, 114, 120 and 131; DropNode.perform, lines 147-148
CallAfter(call) ==
    CASE call = "resolve_node" -> "register_node"
      [] call = "register_node" -> "create_node"
      [] call = "create_node" -> "register_started_node"
      [] call = "register_started_node" -> "ib.get"
      [] call = "ib.get" -> "wait_for_node"
      [] call = "wait_for_node" -> "returned"
      [] call = "cloudhandler.drop_node" -> "servicecomposer.drop_node"
      [] call = "servicecomposer.drop_node" -> "returned"

\* DropNode.perform, line 147: the first call
FirstDropCall ==
    CHOOSE c \in {"cloudhandler.drop_node", "servicecomposer.drop_node"} :
        CallAfter(c) # "returned"

\* where perform goes after a call: to the next statement, or out of perform
\* with the exception of the call
After(call, ok) == IF ok THEN CallAfter(call) ELSE "raised"

InitNode ==
    /\ IdleIP
    /\ IdleRemote
    /\ IdleCol
    /\ IdleSeq
    /\ IdlePar
    /\ IdleWait
    /\ IdleRes
    /\ IdleBasic
    /\ IdleNode
    /\ IdleSynch
    /\ IdleContext

\* the variables a call leaves alone unless it says otherwise
ndCollaborators == <<nd_config, nd_cloud, nd_store, nd_instance_ids>>

\* one collaborator call of perform is made and returns or raises
Called(call, ok) ==
    /\ nd_pc = call
    /\ nd_calls' = Append(nd_calls, call)
    /\ nd_failedAt' = IF ok THEN nd_failedAt ELSE Len(nd_calls) + 1
    /\ nd_pc' = After(call, ok)
    /\ UNCHANGED <<nd_cmd, nd_issued>>
    /\ UNCHANGED notNode

\* CreateNode.perform is entered; line 87: node_id = str(uuid.uuid4())
CreateNodeEntered ==
    /\ nd_pc \in {"idle", "returned", "raised"}
    /\ nd_issued < MaxNodes
    /\ nd_issued' = nd_issued + 1
    /\ nd_cmd' = [op |-> "CreateNode", node_id |-> nd_issued + 1]
    /\ nd_calls' = <<>>
    /\ nd_failedAt' = 0
    /\ nd_pc' = "resolve_node"
    /\ UNCHANGED <<ndCollaborators, nd_dropped>>
    /\ UNCHANGED notNode

\* CreateNode.perform, line 90: resolve_node(ib, node_id, node)
CnResolveNode(ok) ==
    /\ Called("resolve_node", ok)
    /\ UNCHANGED <<ndCollaborators, nd_dropped>>

\* CreateNode.perform, line 95: servicecomposer.register_node(resolved_node)
CnRegisterNode(ok) ==
    /\ Called("register_node", ok)
    /\ nd_config' = IF ok THEN nd_config \cup {nd_cmd.node_id} ELSE nd_config
    /\ UNCHANGED <<nd_cloud, nd_store, nd_instance_ids, nd_dropped>>

\* CreateNode.perform, line 96:
\* instance_id = cloudhandler.create_node(resolved_node)
CnCreateNode(ok) ==
    /\ Called("create_node", ok)
    /\ nd_cloud' = IF ok THEN nd_cloud \cup {nd_cmd.node_id} ELSE nd_cloud
    /\ nd_instance_ids' = IF ok THEN nd_instance_ids \cup {nd_cmd.node_id}
                          ELSE nd_instance_ids
    /\ UNCHANGED <<nd_config, nd_store, nd_dropped>>

\* CreateNode.perform, lines 100-109: the instance data is assembled and
\* uds.register_started_node(environment_id, name, instance_data) stores it
CnRegisterStartedNode(ok) ==
    /\ Called("register_started_node", ok)
    /\ nd_store' = IF ok THEN nd_store \cup {nd_cmd.node_id} ELSE nd_store
    /\ UNCHANGED <<nd_config, nd_cloud, nd_instance_ids, nd_dropped>>

\* CreateNode.perform, lines 111-114: the address is asked for the log
CnGetAddress(ok) ==
    /\ Called("ib.get", ok)
    /\ UNCHANGED <<ndCollaborators, nd_dropped>>

\* CreateNode.perform, lines 118-131: wait_for_node; what it raises is
\* logged and raised again, otherwise the instance data is returned
CnWaitForNode(ok) ==
    /\ Called("wait_for_node", ok)
    /\ UNCHANGED <<ndCollaborators, nd_dropped>>

\* DropNode.perform is entered for the instance data of a node created
\* before
DropNodeEntered(node_id) ==
    /\ nd_pc \in {"returned", "raised"}
    /\ node_id \in nd_instance_ids
    /\ nd_cmd' = [op |-> "DropNode", node_id |-> node_id]
    /\ nd_calls' = <<>>
    /\ nd_failedAt' = 0
    /\ nd_pc' = FirstDropCall
    /\ UNCHANGED <<ndCollaborators, nd_dropped, nd_issued>>
    /\ UNCHANGED notNode

\* what DropNode.perform leaves behind after a call: it has returned after
\* the last one
DroppedAfter(call, ok) ==
    IF After(call, ok) = "returned" THEN nd_dropped \cup {nd_cmd.node_id}
    ELSE nd_dropped

\* DropNode.perform, line 147: cloudhandler.drop_node(self.instance_data)
DnCloudDropNode(ok) ==
    /\ Called("cloudhandler.drop_node", ok)
    /\ nd_cloud' = IF ok THEN nd_cloud \ {nd_cmd.node_id} ELSE nd_cloud
    /\ nd_dropped' = DroppedAfter("cloudhandler.drop_node", ok)
    /\ UNCHANGED <<nd_config, nd_store, nd_instance_ids>>

\* DropNode.perform, line 148: servicecomposer.drop_node(self.instance_data)
DnConfigDropNode(ok) ==
    /\ Called("servicecomposer.drop_node", ok)
    /\ nd_config' = IF ok THEN nd_config \ {nd_cmd.node_id} ELSE nd_config
    /\ nd_dropped' = DroppedAfter("servicecomposer.drop_node", ok)
    /\ UNCHANGED <<nd_cloud, nd_store, nd_instance_ids>>

NextNode ==
    \/ CreateNodeEntered
    \/ \E ok \in BOOLEAN : CnResolveNode(ok)
    \/ \E ok \in BOOLEAN : CnRegisterNode(ok)
    \/ \E ok \in BOOLEAN : CnCreateNode(ok)
    \/ \E ok \in BOOLEAN : CnRegisterStartedNode(ok)
    \/ \E ok \in BOOLEAN : CnGetAddress(ok)
    \/ \E ok \in BOOLEAN : CnWaitForNode(ok)
    \/ \E node_id \in NodeIds : DropNodeEntered(node_id)
    \/ \E ok \in BOOLEAN : DnCloudDropNode(ok)
    \/ \E ok \in BOOLEAN : DnConfigDropNode(ok)

SpecNode == InitNode /\ [][NextNode]_vars

\* C25: the instance data of a node is in the store only after the cloud
\* handler has returned the node's instance id, and after a DropNode of that
\* instance data has returned the store does not hold it any more.
C25_InstanceDataStoredThenRemoved ==
    /\ \A n \in nd_store : n \in nd_instance_ids
    /\ \A n \in nd_dropped : n \notin nd_store

\* the call was made by this perform
Made(call) == call \in Range(nd_calls)

\* the call was made by this perform and has returned
Returned(call) ==
    \E i \in 1..Len(nd_calls) : nd_calls[i] = call /\ nd_failedAt # i

\* C29: CreateNode.perform calls its collaborators in a fixed order: the
\* cloud handler is asked to create the node only after the service composer
\* registered it, the instance data is stored only after the cloud handler
\* returned the instance id, and wait_for_node is called only after the
\* instance data was stored; the call that raises is the last call made.
C29_CreateNodeCallOrder ==
    nd_cmd.op = "CreateNode" =>
        /\ Made("create_node") => Returned("register_node")
        /\ Made("register_started_node") => Returned("create_node")
        /\ Made("wait_for_node") => Returned("register_started_node")
        /\ nd_failedAt # 0 =>
              /\ nd_failedAt = Len(nd_calls)
              /\ nd_pc = "raised"

\* C29 witness: the node was registered and created, storing the instance
\* data raised, and perform ended without calling wait_for_node.
C29_Witness ==
    /\ nd_cmd.op = "CreateNode"
    /\ nd_pc = "raised"
    /\ Returned("register_node")
    /\ Returned("create_node")
    /\ Made("register_started_node")
    /\ ~Returned("register_started_node")
    /\ ~Made("wait_for_node")

\* C30: DropNode.perform asks the cloud handler to drop the node first and
\* the service composer second; when the cloud handler raises, the service
\* composer is not called.
C30_DropNodeCallOrder ==
    nd_cmd.op = "DropNode" =>
        /\ nd_calls # <<>> => nd_calls[1] = "cloudhandler.drop_node"
        /\ Made("servicecomposer.drop_node") =>
              Returned("cloudhandler.drop_node")
        /\ nd_failedAt # 0 =>
              /\ nd_failedAt = Len(nd_calls)
              /\ nd_pc = "raised"

\* C30 witness: the cloud handler raised, and DropNode.perform ended with
\* that exception and one call made.
C30_Witness ==
    /\ nd_cmd.op = "DropNode"
    /\ nd_pc = "raised"
    /\ nd_calls = <<"cloudhandler.drop_node">>
    /\ nd_cmd.node_id \in nd_config

(***************************************************************************)
(* Part 9.  CompositeStatus.get_composite_status                           *)
(*          (src/occo/infraprocessor/synchronization/primitives.py) over   *)
(*          the status components of BasicNodeSynchStrategy                *)
(*          (src/occo/infraprocessor/synchronization/__init__.py)          *)
(*                                                                         *)
(* The result of a status component is "ready" (True), "pending" (False)   *)
(* or "raised" (an exception left it).                                     *)
(***************************************************************************)

\* what the query of an enabled component meets: the node answers, it does
\* not answer yet, the attribute is not there (ib.get raises KeyError), or
\* the query raises another exception
Probes == {"ready", "pending", "KeyError", "error"}

\* StatusItem.evaluate, lines 52-57, of a status component, lines 250-331:
\* a component switched off is True; one switched on is False when a query
\* is not answered yet; attributes_ready catches KeyError (lines 303-309);
\* no other exception is caught
evaluate(item) ==
    CASE item \notin sy_enabled -> "ready"
      [] sy_probe[item] = "KeyError" /\ item = "attributes_ready" -> "pending"
      [] sy_probe[item] \in {"KeyError", "error"} -> "raised"
      [] OTHER -> sy_probe[item]

\* get_composite_status, mutated: every item is evaluated in both modes
EvaluatesAll(lazy, results) == TRUE

\* get_composite_status, lines 80-86: list(results) takes every item from
\* the generator; all(results) takes items until one is false
Evaluates(lazy, results) ==
    lazy => \A i \in 1..Len(results) : results[i] = "ready"

\* a call get_composite_status(basic_status, lazy) on a strategy object;
\* is_ready is the call with lazy left at its default
InitSynch ==
    /\ IdleIP
    /\ IdleRemote
    /\ IdleCol
    /\ IdleSeq
    /\ IdlePar
    /\ IdleWait
    /\ IdleRes
    /\ IdleBasic
    /\ IdleNode
    /\ IdleContext
    /\ sy_pc = "called"
    /\ sy_lazy \in BOOLEAN
    /\ sy_enabled \in SUBSET Range(basic_status)
    /\ sy_probe \in
          {p \in [Range(basic_status) -> Probes] :
              \A c \in Range(basic_status) :
                  /\ c \notin sy_enabled => p[c] = "ready"
                  /\ p[c] = "KeyError" => c = "attributes_ready"}
    /\ sy_backend \in {"ready", "pending"}
    /\ sy_results = <<>>
    /\ sy_status = FALSE

\* get_composite_status, line 80: the generator over tag.items is built
GetCompositeStatus ==
    /\ sy_pc = "called"
    /\ sy_pc' = "evaluating"
    /\ UNCHANGED <<sy_lazy, sy_enabled, sy_probe, sy_backend, sy_results,
                   sy_status>>
    /\ UNCHANGED notSynch

\* get_composite_status, lines 80-86: list() or all() takes the next item
\* from the generator, which evaluates it; an exception leaves the call
EvaluateItem ==
    /\ sy_pc = "evaluating"
    /\ Len(sy_results) < Len(basic_status)
    /\ Evaluates(sy_lazy, sy_results)
    /\ LET result == evaluate(basic_status[Len(sy_results) + 1])
       IN  /\ sy_results' = Append(sy_results, result)
           /\ sy_pc' = IF result = "raised" THEN "raised" ELSE "evaluating"
    /\ UNCHANGED <<sy_lazy, sy_enabled, sy_probe, sy_backend, sy_status>>
    /\ UNCHANGED notSynch

\* get_composite_status, lines 86-88: status = all(results) is returned
ReturnStatus ==
    /\ sy_pc = "evaluating"
    /\ \/ Len(sy_results) = Len(basic_status)
       \/ ~Evaluates(sy_lazy, sy_results)
    /\ sy_status' = \A i \in 1..Len(sy_results) : sy_results[i] = "ready"
    /\ sy_pc' = "returned"
    /\ UNCHANGED <<sy_lazy, sy_enabled, sy_probe, sy_backend, sy_results>>
    /\ UNCHANGED notSynch

NextSynch ==
    \/ GetCompositeStatus
    \/ EvaluateItem
    \/ ReturnStatus

SpecSynch == InitSynch /\ [][NextSynch]_vars

\* the first item of the tag that is not True, or one past the last
FirstFailing ==
    CHOOSE i \in 1..(Len(basic_status) + 1) :
        /\ \A j \in 1..(i - 1) : evaluate(basic_status[j]) = "ready"
        /\ i <= Len(basic_status) => evaluate(basic_status[i]) # "ready"

\* C26: get_composite_status returns the conjunction of all checks of the
\* tag in both modes; the checks are evaluated in the order they were
\* registered; in lazy mode no check after the first failing one is
\* evaluated, in eager mode every check is evaluated.
C26_CompositeStatusIsConjunction ==
    /\ \A i \in 1..Len(sy_results) :
          sy_results[i] = evaluate(basic_status[i])
    /\ sy_pc = "returned" =>
          /\ sy_status =
                (\A c \in Range(basic_status) : evaluate(c) = "ready")
          /\ sy_lazy =>
                Len(sy_results) = IF FirstFailing > Len(basic_status)
                                  THEN Len(basic_status) ELSE FirstFailing
          /\ ~sy_lazy => Len(sy_results) = Len(basic_status)

\* C26 witness: a lazy call returned False after the second check failed,
\* with a later check that would have failed as well left unevaluated.
C26_Witness ==
    /\ sy_pc = "returned"
    /\ sy_lazy
    /\ sy_results = <<"ready", "pending">>
    /\ evaluate("attributes_ready") = "pending"
    /\ ~sy_status

\* C27: is_ready returns True only if the status of the node at its backend
\* is the ready status, whichever optional checks are switched on.
C27_ReadyOnlyIfBackendReady ==
    (sy_pc = "returned" /\ sy_lazy /\ sy_status) => sy_backend = "ready"

\* C28: an error raised while a readiness check is evaluated makes is_ready
\* report not ready: the exception does not leave is_ready.
C28_CheckErrorMeansNotReady ==
    (sy_lazy /\ sy_results # <<>> /\
     sy_probe[basic_status[Len(sy_results)]] \in {"KeyError", "error"}) =>
        /\ sy_pc # "raised"
        /\ sy_pc = "returned" => ~sy_status

(***************************************************************************)
(* Part 10. RemoteInfraProcessorSkeleton as a context manager: __enter__   *)
(*          and __exit__ over its two consumers                            *)
(*          (src/occo/infraprocessor/infraprocessor.py)                    *)
(*                                                                         *)
(* A consumer's __enter__ that raises leaves its context closed; its       *)
(* __exit__ closes the context, also when it was not open.                 *)
(***************************************************************************)

\* Number of with statements executed in one behaviour.
MaxWith == 3

InitContext ==
    /\ IdleIP
    /\ IdleRemote
    /\ IdleCol
    /\ IdleSeq
    /\ IdlePar
    /\ IdleWait
    /\ IdleRes
    /\ IdleBasic
    /\ IdleNode
    /\ IdleSynch
    /\ IdleContext

\* consumer.__enter__() is called and returns or raises
Entered(consumer, ok) ==
    /\ cx_enters' = [cx_enters EXCEPT ![consumer] = @ + 1]
    /\ cx_open' = [cx_open EXCEPT ![consumer] = @ \/ ok]

\* consumer.__exit__(...) is called
Exited(consumer) ==
    /\ cx_exits' = [cx_exits EXCEPT ![consumer] = @ + 1]
    /\ cx_open' = [cx_open EXCEPT ![consumer] = FALSE]

\* "with skeleton:" is reached: the interpreter calls skeleton.__enter__
WithSkeleton ==
    /\ cx_pc \in {"out", "enter raised", "left"}
    /\ cx_blocks < MaxWith
    /\ cx_blocks' = cx_blocks + 1
    /\ cx_pc' = "enter ip"
    /\ cx_pending' = FALSE
    /\ UNCHANGED <<cx_open, cx_enters, cx_exits>>
    /\ UNCHANGED notContext

\* __enter__, line 590: self.ip_consumer.__enter__(); an exception leaves
\* __enter__
EnterIpConsumer(ok) ==
    /\ cx_pc = "enter ip"
    /\ Entered("ip_consumer", ok)
    /\ cx_pc' = IF ok THEN "enter control" ELSE "enter raised"
    /\ UNCHANGED <<cx_exits, cx_blocks, cx_pending>>
    /\ UNCHANGED notContext

\* __enter__, lines 591-593 and 597: self.control_consumer.__enter__()
EnterControlConsumer(ok) ==
    /\ cx_pc = "enter control"
    /\ Entered("control_consumer", ok)
    /\ cx_pc' = IF ok THEN "body" ELSE "rollback"
    /\ UNCHANGED <<cx_exits, cx_blocks, cx_pending>>
    /\ UNCHANGED notContext

\* __enter__, lines 594-596: self.control_consumer.__exit__(None, None,
\* None), then the exception is raised again
Rollback ==
    /\ cx_pc = "rollback"
    /\ Exited("control_consumer")
    /\ cx_pc' = "enter raised"
    /\ UNCHANGED <<cx_enters, cx_blocks, cx_pending>>
    /\ UNCHANGED notContext

\* the body of the with statement returns or raises; the interpreter calls
\* skeleton.__exit__
WithBody(ok) ==
    /\ cx_pc = "body"
    /\ cx_pending' = ~ok
    /\ cx_pc' = "exit ip"
    /\ UNCHANGED <<cx_open, cx_enters, cx_exits, cx_blocks>>
    /\ UNCHANGED notContext

\* __exit__, lines 599-600: self.ip_consumer.__exit__(type, value, tb);
\* what it raises is on its way out while the finally clause runs
ExitIpConsumer(ok) ==
    /\ cx_pc = "exit ip"
    /\ Exited("ip_consumer")
    /\ cx_pending' = (cx_pending \/ ~ok)
    /\ cx_pc' = "exit control"
    /\ UNCHANGED <<cx_enters, cx_blocks>>
    /\ UNCHANGED notContext

\* __exit__, lines 601-602: finally
\* self.control_consumer.__exit__(type, value, tb)
ExitControlConsumer(ok) ==
    /\ cx_pc = "exit control"
    /\ Exited("control_consumer")
    /\ cx_pending' = (cx_pending \/ ~ok)
    /\ cx_pc' = "left"
    /\ UNCHANGED <<cx_enters, cx_blocks>>
    /\ UNCHANGED notContext

NextContext ==
    \/ WithSkeleton
    \/ \E ok \in BOOLEAN : EnterIpConsumer(ok)
    \/ \E ok \in BOOLEAN : EnterControlConsumer(ok)
    \/ Rollback
    \/ \E ok \in BOOLEAN : WithBody(ok)
    \/ \E ok \in BOOLEAN : ExitIpConsumer(ok)
    \/ \E ok \in BOOLEAN : ExitControlConsumer(ok)

SpecContext == InitContext /\ [][NextContext]_vars

\* C32: __enter__ opens the two consumers transactionally: when __enter__
\* raises, no consumer context is left open; in particular the work-queue
\* consumer entered before the control consumer failed is exited again.
C32_EnterLeavesNoConsumerOpen ==
    cx_pc = "enter raised" => \A c \in Consumers : ~cx_open[c]

====
